---------------------------- MODULE Spec2Model ----------------------------
(***************************************************************************)
(* A model of pyradi's ryplanck.py (Planck-law exitance, its temperature   *)
(* derivative, Stefan-Boltzmann and the selector dispatch).                *)
(*                                                                         *)
(* Numbers.  An IEEE double is modelled by its exact real value together   *)
(* with the IEEE specials: NaN, +/-Inf and signed zero.  A finite nonzero  *)
(* value is kept as a signed monomial                                      *)
(*        sg * q * c * (e^x)^a * |e^x - 1|^b                               *)
(* where q is a positive rational, c names one of the c1/sigma constants   *)
(* of PlanckConstants (or is "" for none) and x is the argument the        *)
(* exponential was called with.  Rounding is not modelled; the overflow    *)
(* and the underflow of numpy.exp are.                                     *)
(*                                                                         *)
(* Units.  TLC's integers are 32 bits wide, so a spectral value is counted *)
(* in whole multiples of a unit per domain (1 um, 100 cm^-1, 1e13 Hz) and  *)
(* the second radiation constants are given per that unit.  An integer     *)
(* typed numpy array wraps at 2^IntBits here as int64 does at 2^64.        *)
(***************************************************************************)
EXTENDS Integers, Sequences, FiniteSets, TLC

----------------------------------------------------------------------------
(* Bounds of the model *)

\* the longest spectral or temperature vector a call is given
MaxLen == 2

\* the threads of a concurrent host
NumThreads == 2

\* width, in bits, of the integer dtype of an array
IntBits == 6

\* the largest magnitude a spectral value or a temperature takes
BigVal == 5

----------------------------------------------------------------------------
(* Exact rational arithmetic: <<n, d>> with d > 0 and gcd(n, d) = 1 *)

Abs(n) == IF n < 0 THEN -n ELSE n

Sign(n) == IF n < 0 THEN -1 ELSE 1

RECURSIVE Gcd(_, _)
Gcd(a, b) == IF b = 0 THEN a ELSE Gcd(b, a % b)

\* n / d with the common factor g taken out, the sign in the numerator
Reduced(n, d, g) ==
    IF d < 0 THEN << -(n \div g), (-d) \div g >> ELSE << n \div g, d \div g >>

Rat(n, d) == Reduced(n, d, Gcd(Abs(n), Abs(d)))

\* r * s, the common factors g1 of r[1] and s[2] and g2 of s[1] and r[2] taken
\* out before the products are formed
CrossReduced(r, s, g1, g2) ==
    Rat((r[1] \div g1) * (s[1] \div g2), (r[2] \div g2) * (s[2] \div g1))

RMul(r, s) == CrossReduced(r, s, Gcd(Abs(r[1]), s[2]), Gcd(Abs(s[1]), r[2]))

RInv(r) == Rat(r[2], r[1])

RLess(r, s) == r[1] * s[2] < s[1] * r[2]

RAbs(r) == << Abs(r[1]), r[2] >>

----------------------------------------------------------------------------
(* IEEE values.  A finite value is sg * q * 10^e * c * e^(a x) * |e^x - 1|^b, *)
(* with q = <<n, d>> in lowest terms, d prime to 10 and n no multiple of 10   *)

NoX == <<0, 1>>

RECURSIVE Pow10(_)
Pow10(n) == IF n = 0 THEN 1 ELSE 10 * Pow10(n - 1)

\* the normal form of the magnitude (n / d) * 10^e, for n > 0 and d > 0
RECURSIVE Dec(_, _, _)
Dec(n, d, e) ==
    IF d % 2 = 0 THEN Dec(5 * n, d \div 2, e - 1)
    ELSE IF d % 5 = 0 THEN Dec(2 * n, d \div 5, e - 1)
    ELSE IF n % 10 = 0 THEN Dec(n \div 10, d, e + 1)
    ELSE [q |-> <<n, d>>, e |-> e]

\* the same for a positive rational r
DecOf(r, e) == Dec(r[1], r[2], e)

NaN ==
    [k |-> "nan", sg |-> 1, q |-> <<1, 1>>, e |-> 0, c |-> "", x |-> NoX,
     a |-> 0, b |-> 0]

Inf(s) ==
    [k |-> "inf", sg |-> s, q |-> <<1, 1>>, e |-> 0, c |-> "", x |-> NoX,
     a |-> 0, b |-> 0]

Zero(s) ==
    [k |-> "zero", sg |-> s, q |-> <<1, 1>>, e |-> 0, c |-> "", x |-> NoX,
     a |-> 0, b |-> 0]

\* the double nearest the rational r (r itself: rounding is not modelled)
\* the finite value with sign sg, magnitude m = [q, e], constant c and
\* exponential part x, a, b
Fin(sg, m, c, x, a, b) ==
    [k |-> "fin", sg |-> sg, q |-> m.q, e |-> m.e, c |-> c, x |-> x, a |-> a, b |-> b]

Num(r) ==
    IF r[1] = 0 THEN Zero(1)
    ELSE Fin(Sign(r[1]), Dec(Abs(r[1]), r[2], 0), "", NoX, 0, 0)

FromInt(n) == Num(<<n, 1>>)

\* a named physical constant (positive, finite)
Const(name) ==
    [k |-> "fin", sg |-> 1, q |-> <<1, 1>>, e |-> 0, c |-> name, x |-> NoX,
     a |-> 0, b |-> 0]

IsPlain(v) == v.k = "fin" /\ v.c = "" /\ v.a = 0 /\ v.b = 0

HasExp(v) == v.a # 0 \/ v.b # 0

\* the signed rational a plain value or a zero stands for
RatOf(v) ==
    IF v.k = "zero" THEN <<0, 1>>
    ELSE IF v.e >= 0 THEN << v.sg * v.q[1] * Pow10(v.e), v.q[2] >>
    ELSE Rat(v.sg * v.q[1], v.q[2] * Pow10(-v.e))

\* a monomial is brought back to its normal form: no exponential part, no x
Norm(v) == IF HasExp(v) THEN v ELSE [v EXCEPT !.x = NoX]

FNeg(v) == IF v.k = "nan" THEN v ELSE [v EXCEPT !.sg = -v.sg]

\* u * v
FMul(u, v) ==
    IF u.k = "nan" \/ v.k = "nan" THEN NaN
    ELSE IF u.k = "inf" \/ v.k = "inf"
         THEN IF u.k = "zero" \/ v.k = "zero" THEN NaN ELSE Inf(u.sg * v.sg)
    ELSE IF u.k = "zero" \/ v.k = "zero" THEN Zero(u.sg * v.sg)
    ELSE Norm(Fin(u.sg * v.sg, DecOf(RMul(u.q, v.q), u.e + v.e),
                  IF u.c = "" THEN v.c ELSE u.c,
                  IF HasExp(u) THEN u.x ELSE v.x,
                  u.a + v.a, u.b + v.b))

\* u / v
FDiv(u, v) ==
    IF u.k = "nan" \/ v.k = "nan" THEN NaN
    ELSE IF u.k = "inf"
         THEN IF v.k = "inf" THEN NaN ELSE Inf(u.sg * v.sg)
    ELSE IF v.k = "inf" THEN Zero(u.sg * v.sg)
    ELSE IF v.k = "zero"
         THEN IF u.k = "zero" THEN NaN ELSE Inf(u.sg * v.sg)
    ELSE IF u.k = "zero" THEN Zero(u.sg * v.sg)
    ELSE Norm(Fin(u.sg * v.sg, DecOf(RMul(u.q, RInv(v.q)), u.e - v.e),
                  IF u.c = "" THEN v.c ELSE u.c,
                  IF HasExp(u) THEN u.x ELSE v.x,
                  u.a - v.a, u.b - v.b))

\* v * 10^n for a finite v
E10(v, n) == [v EXCEPT !.e = @ + n]

\* e^709.78 is the largest double; e^-745.14 rounds to 0
ExpOverflow == <<70979, 100>>

ExpUnderflow == <<-74514, 100>>

\* numpy.exp of one value
FExp(v) ==
    IF v.k = "nan" THEN NaN
    ELSE IF v.k = "inf" THEN (IF v.sg = 1 THEN Inf(1) ELSE Zero(1))
    ELSE IF v.k = "zero" THEN FromInt(1)
    ELSE IF ~RLess(RatOf(v), ExpOverflow) THEN Inf(1)
    ELSE IF RLess(RatOf(v), ExpUnderflow) THEN Zero(1)
    ELSE [k |-> "fin", sg |-> 1, q |-> <<1, 1>>, e |-> 0, c |-> "", x |-> RatOf(v),
          a |-> 1, b |-> 0]

\* v - 1, for v a result of FExp
FSub1(v) ==
    IF v.k = "nan" THEN NaN
    ELSE IF v.k = "inf" THEN v
    ELSE IF v.k = "zero" THEN FromInt(-1)
    ELSE IF IsPlain(v) THEN Num(<<RatOf(v)[1] - RatOf(v)[2], RatOf(v)[2]>>)
    ELSE [v EXCEPT !.sg = Sign(v.x[1]), !.a = 0, !.b = 1]

\* v < lim for a double v and a rational lim; a comparison with NaN is false
FLess(v, lim) ==
    IF v.k = "nan" THEN FALSE
    ELSE IF v.k = "inf" THEN v.sg = -1
    ELSE RLess(RatOf(v), lim)

----------------------------------------------------------------------------
(* Integer dtype: two's complement of IntBits bits *)

RECURSIVE Pow2(_)
Pow2(n) == IF n = 0 THEN 1 ELSE 2 * Pow2(n - 1)

Wrap(n) == ((n + Pow2(IntBits - 1)) % Pow2(IntBits)) - Pow2(IntBits - 1)

\* the integer a value of an integer array holds
IntOf(v) == RatOf(v)[1]

----------------------------------------------------------------------------
(* What a caller passes: a Python scalar, a numpy scalar, a list, a rank-1   *)
(* ndarray, or a rank-2 ndarray that is a column or a row, of integers       *)
(* (dt = "i") or of floats (dt = "f")                                        *)

\* the values are data[i] / den
Arg(form, dt, data) == [form |-> form, dt |-> dt, data |-> data, den |-> 1]

\* floats that are no whole numbers
FloatArg(form, data, den) == [form |-> form, dt |-> "f", data |-> data, den |-> den]

NoArg == Arg("none", "f", << >>)

IsScalarArg(v) == v.form \in {"pyscalar", "npscalar"}

IsVectorArg(v) == v.form \in {"list", "ndarray"}

\* the attribute .shape exists on numpy objects only
HasShape(v) == v.form \in {"npscalar", "ndarray"}

ShapeOf(v) == IF v.form = "npscalar" THEN << >> ELSE << Len(v.data) >>

----------------------------------------------------------------------------
(* numpy arrays: a dtype, a shape and the elements in row-major order *)

Array(dt, shape, d) == [dt |-> dt, shape |-> shape, d |-> SubSeq(d, 1, Len(d))]

Size(A) == Len(A.d)

\* the shape numpy.array(v, copy=False, ndmin=1) has: (K,1) for a column of K
\* values, (1,K) for a row, (K,) for all else
ShapeIn(v) ==
    IF v.form = "column" THEN << Len(v.data), 1 >>
    ELSE IF v.form = "row" THEN << 1, Len(v.data) >>
    ELSE << Len(v.data) >>

\* a slip: a column comes out as a row
NpArray_ColumnAsRow(v) ==
    Array(v.dt, IF v.form \in {"column", "row"} THEN << 1, Len(v.data) >>
                ELSE << Len(v.data) >>,
          [i \in 1..Len(v.data) |-> Num(Rat(v.data[i], v.den))])

\* numpy.array(v, copy=False, ndmin=1)
NpArray(v) ==
    Array(v.dt, ShapeIn(v),
          [i \in 1..Len(v.data) |-> Num(Rat(v.data[i], v.den))])

\* numpy.meshgrid(x, y) of two rank-1 arrays: two arrays of shape (len(y), len(x))
Meshgrid(x, y) ==
    LET N == Size(x)
        M == Size(y)
    IN  << Array(x.dt, <<M, N>>, [k \in 1..(M * N) |-> x.d[((k - 1) % N) + 1]]),
           Array(y.dt, <<M, N>>, [k \in 1..(M * N) |-> y.d[((k - 1) \div N) + 1]]) >>

\* numpy.ravel(A)
Ravel(A) == Array(A.dt, << Size(A) >>, A.d)

\* a Python float s and an array A, element by element
SMul(s, A) == Array("f", A.shape, [i \in 1..Size(A) |-> FMul(s, A.d[i])])

SDiv(s, A) == Array("f", A.shape, [i \in 1..Size(A) |-> FDiv(s, A.d[i])])

\* A * B: integer arrays multiply in the integer dtype, and wrap
AMul(A, B) ==
    IF A.dt = "i" /\ B.dt = "i"
    THEN Array("i", A.shape,
               [i \in 1..Size(A) |-> FromInt(Wrap(IntOf(A.d[i]) * IntOf(B.d[i])))])
    ELSE Array("f", A.shape, [i \in 1..Size(A) |-> FMul(A.d[i], B.d[i])])

\* A / B under "from __future__ import division": always a float array
ADiv(A, B) == Array("f", A.shape, [i \in 1..Size(A) |-> FDiv(A.d[i], B.d[i])])

RECURSIVE IPow(_, _)
IPow(n, e) == IF e = 0 THEN 1 ELSE Wrap(n * IPow(n, e - 1))

RECURSIVE FPow(_, _)
FPow(v, e) == IF e = 1 THEN v ELSE FMul(v, FPow(v, e - 1))

\* A ** e for a positive integer e: an integer array stays in the integer dtype
APow(A, e) ==
    IF A.dt = "i"
    THEN Array("i", A.shape, [i \in 1..Size(A) |-> FromInt(IPow(IntOf(A.d[i]), e))])
    ELSE Array("f", A.shape, [i \in 1..Size(A) |-> FPow(A.d[i], e)])

\* numpy.exp(A)
AExp(A) == Array("f", A.shape, [i \in 1..Size(A) |-> FExp(A.d[i])])

\* A - 1
ASub1(A) == Array("f", A.shape, [i \in 1..Size(A) |-> FSub1(A.d[i])])

\* A < lim, element by element
ALess(A, lim) == [i \in 1..Size(A) |-> FLess(A.d[i], lim)]

\* a slip: one element that fails the test replaces every element
NpWhere_AllOrNothing(cond, A, s) ==
    Array("f", A.shape,
          [i \in 1..Size(A) |-> IF \A k \in 1..Size(A) : cond[k] THEN A.d[i] ELSE s])

\* numpy.where(cond, A, s) with a Python number s
NpWhere(cond, A, s) ==
    Array("f", A.shape, [i \in 1..Size(A) |-> IF cond[i] THEN A.d[i] ELSE s])

----------------------------------------------------------------------------
(* What a call gives back: a value, or a raised exception *)

Ok(shape, d) == [tag |-> "ok", exc |-> "", shape |-> shape, d |-> d]

Raise(e) == [tag |-> "raise", exc |-> e, shape |-> << >>, d |-> << >>]

RECURSIVE Prod(_)
Prod(shape) == IF shape = << >> THEN 1 ELSE Head(shape) * Prod(Tail(shape))

\* a slip: reshape(n, 1), a column
Reshape1_Column(A, n) ==
    IF n = Size(A) THEN Ok(<<n, 1>>, A.d) ELSE Raise("ValueError")

\* A.reshape(n): a ValueError when the sizes differ
Reshape1(A, n) ==
    IF n = Size(A) THEN Ok(<<n>>, A.d) ELSE Raise("ValueError")

\* A.reshape(n, -1): a ValueError when n does not divide the size
Reshape2(A, n) ==
    IF n > 0 /\ Size(A) % n = 0 THEN Ok(<<n, Size(A) \div n>>, A.d)
    ELSE Raise("ValueError")

\* a slip: the shape is swapped and the elements are left where they were
Transpose_AsReshape(R) ==
    IF R.tag = "raise" THEN R
    ELSE Ok(<< R.shape[2], R.shape[1] >>, R.d)

\* R.T for a rank-2 result
Transpose(R) ==
    IF R.tag = "raise" THEN R
    ELSE LET r == R.shape[1]
             c == R.shape[2]
         IN  Ok(<<c, r>>, [k \in 1..(r * c) |->
                    R.d[((k - 1) % r) * c + ((k - 1) \div r) + 1]])

\* a slip: the single value is returned as the array of one element it is in
Unflatten_KeepArray(planckA, tempIn, specIn) ==
    IF tempIn.shape[1] = 1 /\ specIn.shape[1] = 1 THEN Ok(<<1>>, << planckA.d[1] >>)
    ELSE IF tempIn.shape[1] = 1 /\ specIn.shape[1] # 1
         THEN Reshape1(planckA, specIn.shape[1])
    ELSE IF tempIn.shape[1] # 1 /\ specIn.shape[1] = 1
         THEN Reshape2(planckA, specIn.shape[1])
    ELSE Transpose(Reshape2(planckA, tempIn.shape[1]))

\* a slip: the third case reshapes as the second does
Unflatten_SameReshape(planckA, tempIn, specIn) ==
    IF tempIn.shape[1] = 1 /\ specIn.shape[1] = 1 THEN Ok(<< >>, << planckA.d[1] >>)
    ELSE IF tempIn.shape[1] = 1 /\ specIn.shape[1] # 1
         THEN Reshape1(planckA, specIn.shape[1])
    ELSE IF tempIn.shape[1] # 1 /\ specIn.shape[1] = 1
         THEN Reshape1(planckA, specIn.shape[1])
    ELSE Transpose(Reshape2(planckA, tempIn.shape[1]))

\* "now unflatten to proper structure again, spectral along axis=0"
Unflatten(planckA, tempIn, specIn) ==
    IF tempIn.shape[1] = 1 /\ specIn.shape[1] = 1 THEN Ok(<< >>, << planckA.d[1] >>)
    ELSE IF tempIn.shape[1] = 1 /\ specIn.shape[1] # 1
         THEN Reshape1(planckA, specIn.shape[1])
    ELSE IF tempIn.shape[1] # 1 /\ specIn.shape[1] = 1
         THEN Reshape2(planckA, specIn.shape[1])
    ELSE Transpose(Reshape2(planckA, tempIn.shape[1]))

\* element [i][j] of a rank-2 result, element [i] of a rank-1 result
At2(R, i, j) == R.d[(i - 1) * R.shape[2] + j]

At1(R, i) == R.d[i]

----------------------------------------------------------------------------
(* chroma.py: the arrays are numpy arrays of shape (N,) or (N,1); sums of    *)
(* plain values                                                              *)

RAdd(r, s) == Rat(r[1] * s[2] + s[1] * r[2], r[2] * s[2])

\* u + v for values without a symbolic part
FAdd(u, v) ==
    IF u.k = "nan" \/ v.k = "nan" THEN NaN
    ELSE IF u.k = "inf"
         THEN IF v.k = "inf" /\ v.sg # u.sg THEN NaN ELSE u
    ELSE IF v.k = "inf" THEN v
    ELSE IF u.k = "zero" /\ v.k = "zero"
         THEN Zero(IF u.sg = -1 /\ v.sg = -1 THEN -1 ELSE 1)
    ELSE Num(RAdd(RatOf(u), RatOf(v)))

\* the array an argument of form "ndarray" (N,) or "column" (N,1) is
AsArray(v) ==
    Array(v.dt, IF v.form = "column" THEN << Len(v.data), 1 >> ELSE << Len(v.data) >>,
          [i \in 1..Len(v.data) |-> Num(Rat(v.data[i], v.den))])

\* A.reshape(-1, 1)
Column(A) == Array(A.dt, << Size(A), 1 >>, A.d)

\* y[1:] and y[:-1] along axis 0 of an (N,1) array
Slice1(y) == Array(y.dt, << Size(y) - 1, 1 >>, [i \in 1..(Size(y) - 1) |-> y.d[i + 1]])

Slice2(y) == Array(y.dt, << Size(y) - 1, 1 >>, [i \in 1..(Size(y) - 1) |-> y.d[i]])

\* A + B, element by element
AAdd(A, B) == Array("f", A.shape, [i \in 1..Size(A) |-> FAdd(A.d[i], B.d[i])])

\* numpy.diff(x) along axis 0, in the shape (N-1, 1) trapz gives it: for a
\* rank-1 x "d = diff(x); d = d.reshape(shape)", else "d = diff(x, axis=axis)"
Diff(x) ==
    Array("f", << Size(x) - 1, 1 >>,
          [i \in 1..(Size(x) - 1) |-> FAdd(x.d[i + 1], FNeg(x.d[i]))])

RECURSIVE SumTo(_, _)
SumTo(d, n) == IF n = 0 THEN Zero(1) ELSE FAdd(SumTo(d, n - 1), d[n])

\* A.sum(axis=0) of an (K,1) array: an array of shape (1,); 0.0 for K = 0
Sum0(A) == Array("f", << 1 >>, << SumTo(A.d, Size(A)) >>)

\* numpy.trapz(y, x, axis=0): "(d * (y[slice1] + y[slice2]) / 2.0).sum(axis)"
Trapz(y, x) ==
    LET d == Diff(x)
        two == Array("f", d.shape, [i \in 1..Size(d) |-> FromInt(2)])
    IN  Sum0(ADiv(AMul(d, AAdd(Slice1(y), Slice2(y))), two))

\* a slip: the third element returned is the chromaticity z and not Y
chromaticityforSpectralL_Returns_z(spectral_arg, radiance, xbar, ybar, zbar) ==
    LET rad == Column(AsArray(radiance))
        X == Trapz(AMul(rad, Column(AsArray(xbar))), AsArray(spectral_arg))
        Y == Trapz(AMul(rad, Column(AsArray(ybar))), AsArray(spectral_arg))
        Z == Trapz(AMul(rad, Column(AsArray(zbar))), AsArray(spectral_arg))
        x == ADiv(X, AAdd(AAdd(X, Y), Z))
        y == ADiv(Y, AAdd(AAdd(X, Y), Z))
        z == ADiv(Z, AAdd(AAdd(X, Y), Z))
    IN  Ok(<< 3 >>, << x.d[1], y.d[1], z.d[1] >>)

\* a slip: Y is the integral of ybar alone, the radiance left out
chromaticityforSpectralL_Y_Unweighted(spectral_arg, radiance, xbar, ybar, zbar) ==
    LET rad == Column(AsArray(radiance))
        X == Trapz(AMul(rad, Column(AsArray(xbar))), AsArray(spectral_arg))
        Y == Trapz(Column(AsArray(ybar)), AsArray(spectral_arg))
        Z == Trapz(AMul(rad, Column(AsArray(zbar))), AsArray(spectral_arg))
        sum == AAdd(AAdd(X, Y), Z)
    IN  Ok(<< 3 >>, << ADiv(X, sum).d[1], ADiv(Y, sum).d[1], Y.d[1] >>)

\* a slip: the integrals are taken as Python floats, whose division by zero
\* raises
chromaticityforSpectralL_PyFloats(spectral_arg, radiance, xbar, ybar, zbar) ==
    LET rad == Column(AsArray(radiance))
        X == Trapz(AMul(rad, Column(AsArray(xbar))), AsArray(spectral_arg))
        Y == Trapz(AMul(rad, Column(AsArray(ybar))), AsArray(spectral_arg))
        Z == Trapz(AMul(rad, Column(AsArray(zbar))), AsArray(spectral_arg))
        sum == AAdd(AAdd(X, Y), Z)
    IN  IF sum.d[1].k = "zero" THEN Raise("ZeroDivisionError")
        ELSE Ok(<< 3 >>, << ADiv(X, sum).d[1], ADiv(Y, sum).d[1], Y.d[1] >>)

\* chroma.py, chromaticityforSpectralL: the list [x[0], y[0], Y[0]]
chromaticityforSpectralL(spectral_arg, radiance, xbar, ybar, zbar) ==
    LET rad == Column(AsArray(radiance))
        X == Trapz(AMul(rad, Column(AsArray(xbar))), AsArray(spectral_arg))
        Y == Trapz(AMul(rad, Column(AsArray(ybar))), AsArray(spectral_arg))
        Z == Trapz(AMul(rad, Column(AsArray(zbar))), AsArray(spectral_arg))
        x == ADiv(X, AAdd(AAdd(X, Y), Z))
        y == ADiv(Y, AAdd(AAdd(X, Y), Z))
    IN  Ok(<< 3 >>, << x.d[1], y.d[1], Y.d[1] >>)

----------------------------------------------------------------------------
(* The module's state *)

VARIABLES
    pyMajor,      \* sys.version_info[0] of the interpreter loading the module
    modstate,     \* "importing", "guarded", "constants", "loaded", "exited"
                  \* or, the construction of the constants having raised,
                  \* "failed"
    built,        \* how many times PlanckConstants() has been constructed
    explimit,     \* the module global explimit
    pconst,       \* the module global pconst
    plancktype,   \* the dispatch table of the exitance functions
    dplancktype,  \* the dispatch table of the derivative functions
    fn,           \* the function last called
    spectral,     \* its spectral argument
    temperature,  \* its temperature argument
    type,         \* its selector argument
    rtnVal,       \* what it returned, or raised
    frame,        \* per thread of a concurrent host: the frame of its call
    curves        \* chroma.py: the radiance and tristimulus arguments of the call

vars == << pyMajor, modstate, built, explimit, pconst, plancktype, dplancktype,
           fn, spectral, temperature, type, rtnVal, frame, curves >>

\* the call of the single caller
caller == << fn, spectral, temperature, type, rtnVal, curves >>

globals == << pyMajor, modstate, built, explimit, pconst, plancktype, dplancktype >>

Unset == [set |-> FALSE]

\* scipy.constants.c = 2.998e8 m/s, taken as 3e8
LightSpeed == E10(FromInt(3), 8)

\* scipy.constants.h * c / k = 0.014388 m.K
SecondRadiation == Num(Rat(14388, 1000000))

\* two fractions e lies between
ELow == << 5, 2 >>

EHigh == << 3, 1 >>

RECURSIVE IntPow(_, _)
IntPow(b, k) == IF k = 0 THEN 1 ELSE b * IntPow(b, k - 1)

\* PlanckConstants.an, "n * (1-numpy.exp(-x)) - x", at x = h / 2: its sign.
\* The value is positive when exp(-h/2) < (2n - h) / (2n), that is when
\* 2n > h and e^h (2n - h)^2 > (2n)^2, and negative when exp(-h/2) is greater;
\* 0 stands for a sign the two fractions do not settle.
an(h, n) ==
    IF 2 * n - h <= 0 THEN -1
    ELSE IF IntPow(ELow[1], h) * (2 * n - h) * (2 * n - h)
               > IntPow(ELow[2], h) * (2 * n) * (2 * n) THEN 1
    ELSE IF IntPow(EHigh[1], h) * (2 * n - h) * (2 * n - h)
               < IntPow(EHigh[2], h) * (2 * n) * (2 * n) THEN -1
    ELSE 0

\* a slip: a4 is looked for between 2 and 3.5
Brackets_a4_Low ==
    [n \in 2..5 |-> CASE n = 2 -> << 2, 4 >> [] n = 3 -> << 4, 6 >>
                      [] n = 4 -> << 4, 7 >> [] n = 5 -> << 9, 10 >>]

\* the intervals __init__ hands to brentq for a2 .. a5, in halves:
\* (1, 2), (2, 3), (3.5, 4), (4.5, 5)
Brackets ==
    [n \in 2..5 |-> CASE n = 2 -> << 2, 4 >> [] n = 3 -> << 4, 6 >>
                      [] n = 4 -> << 7, 8 >> [] n = 5 -> << 9, 10 >>]

RootNames == [n \in 2..5 |-> CASE n = 2 -> "a2" [] n = 3 -> "a3"
                                [] n = 4 -> "a4" [] n = 5 -> "a5"]

\* the derivative of an, n exp(-x) - 1, is negative from x = h / 2 on:
\* e^(h/2) > n
Decreasing(h, n) == IntPow(ELow[1], h) > IntPow(ELow[2], h) * n * n

\* what no root-find has produced
NoRoot == [k |-> "raise", exc |-> "ValueError"]

\* scipy.optimize.brentq(self.an, a, b, (n)): a ValueError unless the function
\* has different signs at a and b, else the root between them
brentq(n) ==
    IF an(Brackets[n][1], n) * an(Brackets[n][2], n) < 0
    THEN Const(RootNames[n])
    ELSE NoRoot

\* PlanckConstants.__init__.  Spectral values are counted in um, in 100 cm^-1 and
\* in 1e13 Hz: a constant that multiplies a power of the wavenumber or of the
\* frequency holds that power of the unit as well.
PlanckConstants ==
    LET c1em == Const("c1em")
        c1qm == Const("c1qm")
        c2m == SecondRadiation
    IN  [set |-> TRUE,
         c1em |-> c1em,
         c1el |-> E10(c1em, 24),
         c1en |-> E10(E10(c1em, 8), 6),
         c1ef |-> E10(FDiv(c1em, FPow(LightSpeed, 4)), 39),
         c1qm |-> c1qm,
         c1ql |-> E10(c1qm, 18),
         c1qn |-> E10(E10(c1qm, 6), 4),
         c1nf |-> E10(FDiv(c1qm, FPow(LightSpeed, 3)), 26),
         c2m |-> c2m,
         c2l |-> E10(c2m, 6),
         c2n |-> E10(E10(c2m, 2), 2),
         c2f |-> E10(FDiv(c2m, LightSpeed), 13),
         sigmae |-> Const("sigmae"), zeta3 |-> Const("zeta3"),
         sigmaq |-> Const("sigmaq"),
         a2 |-> brentq(2), a3 |-> brentq(3), a4 |-> brentq(4),
         a5 |-> brentq(5),
         wel |-> Const("wel"), wql |-> Const("wql"), wen |-> Const("wen"),
         wqn |-> Const("wqn"), wef |-> Const("wef"), wqf |-> Const("wqf")]

\* explimit = 709.7
ExpLimit == Rat(7097, 10)

----------------------------------------------------------------------------
(* The six exitance functions *)

\* planckef: the statements between the flattening and the unflattening
planckef_planckA(spec, temp) ==
    LET exP == ADiv(SMul(pconst.c2f, spec), temp)
        exP2 == NpWhere(ALess(exP, explimit), exP, FromInt(1))
        p == ADiv(SMul(pconst.c1ef, APow(spec, 3)), ASub1(AExp(exP2)))
        planckA == NpWhere(ALess(exP, explimit), p, Zero(1))
    IN  planckA

\* a slip: the temperature is validated, and a call with a temperature that is
\* not positive is refused
planckef_Validates(frequency, temp_arg) ==
    IF \E j \in 1..Len(temp_arg.data) : temp_arg.data[j] <= 0
    THEN Raise("ValueError")
    ELSE LET tempIn == NpArray(temp_arg)
             specIn == NpArray(frequency)
             grid == Meshgrid(specIn, tempIn)
         IN  Unflatten(planckef_planckA(Ravel(grid[1]), Ravel(grid[2])), tempIn, specIn)

planckef(frequency, temp_arg) ==
    LET tempIn == NpArray(temp_arg)
        specIn == NpArray(frequency)
        grid == Meshgrid(specIn, tempIn)
        spec == Ravel(grid[1])
        temp == Ravel(grid[2])
        planckA == planckef_planckA(spec, temp)
    IN  Unflatten(planckA, tempIn, specIn)

\* planckel: the statements between the flattening and the unflattening
planckel_planckA(spec, temp) ==
    LET exP == SDiv(pconst.c2l, AMul(spec, temp))
        exP2 == NpWhere(ALess(exP, explimit), exP, FromInt(1))
        p == ADiv(SDiv(pconst.c1el, ASub1(AExp(exP2))), APow(spec, 5))
        planckA == NpWhere(ALess(exP, explimit), p, Zero(1))
    IN  planckA

planckel(wavelength, temp_arg) ==
    LET tempIn == NpArray(temp_arg)
        specIn == NpArray(wavelength)
        grid == Meshgrid(specIn, tempIn)
        spec == Ravel(grid[1])
        temp == Ravel(grid[2])
        planckA == planckel_planckA(spec, temp)
    IN  Unflatten(planckA, tempIn, specIn)

\* plancken: the statements between the flattening and the unflattening; the
\* exponential is taken of exP here, not of exP2
plancken_planckA(spec, temp) ==
    LET exP == SMul(pconst.c2n, ADiv(spec, temp))
        exP2 == NpWhere(ALess(exP, explimit), exP, FromInt(1))
        p == ADiv(SMul(pconst.c1en, APow(spec, 3)), ASub1(AExp(exP)))
        planckA == NpWhere(ALess(exP, explimit), p, Zero(1))
    IN  planckA

plancken(wavenumber, temp_arg) ==
    LET tempIn == NpArray(temp_arg)
        specIn == NpArray(wavenumber)
        grid == Meshgrid(specIn, tempIn)
        spec == Ravel(grid[1])
        temp == Ravel(grid[2])
        planckA == plancken_planckA(spec, temp)
    IN  Unflatten(planckA, tempIn, specIn)

\* planckqf: the statements between the flattening and the unflattening
planckqf_planckA(spec, temp) ==
    LET exP == ADiv(SMul(pconst.c2f, spec), temp)
        exP2 == NpWhere(ALess(exP, explimit), exP, FromInt(1))
        p == ADiv(SMul(pconst.c1nf, APow(spec, 2)), ASub1(AExp(exP2)))
        planckA == NpWhere(ALess(exP, explimit), p, Zero(1))
    IN  planckA

planckqf(frequency, temp_arg) ==
    LET tempIn == NpArray(temp_arg)
        specIn == NpArray(frequency)
        grid == Meshgrid(specIn, tempIn)
        spec == Ravel(grid[1])
        temp == Ravel(grid[2])
        planckA == planckqf_planckA(spec, temp)
    IN  Unflatten(planckA, tempIn, specIn)

\* planckql: the statements between the flattening and the unflattening
planckql_planckA(spec, temp) ==
    LET exP == SDiv(pconst.c2l, AMul(spec, temp))
        exP2 == NpWhere(ALess(exP, explimit), exP, FromInt(1))
        p == ADiv(SDiv(pconst.c1ql, ASub1(AExp(exP2))), APow(spec, 4))
        planckA == NpWhere(ALess(exP, explimit), p, Zero(1))
    IN  planckA

planckql(wavelength, temp_arg) ==
    LET tempIn == NpArray(temp_arg)
        specIn == NpArray(wavelength)
        grid == Meshgrid(specIn, tempIn)
        spec == Ravel(grid[1])
        temp == Ravel(grid[2])
        planckA == planckql_planckA(spec, temp)
    IN  Unflatten(planckA, tempIn, specIn)

\* planckqn: the statements between the flattening and the unflattening
planckqn_planckA(spec, temp) ==
    LET exP == ADiv(SMul(pconst.c2n, spec), temp)
        exP2 == NpWhere(ALess(exP, explimit), exP, FromInt(1))
        p == ADiv(SMul(pconst.c1qn, APow(spec, 2)), ASub1(AExp(exP2)))
        planckA == NpWhere(ALess(exP, explimit), p, Zero(1))
    IN  planckA

planckqn(wavenumber, temp_arg) ==
    LET tempIn == NpArray(temp_arg)
        specIn == NpArray(wavenumber)
        grid == Meshgrid(specIn, tempIn)
        spec == Ravel(grid[1])
        temp == Ravel(grid[2])
        planckA == planckqn_planckA(spec, temp)
    IN  Unflatten(planckA, tempIn, specIn)

----------------------------------------------------------------------------
(* The six temperature derivatives: no test of the exponent against explimit *)

\* dplnckef: the statements between the flattening and the unflattening
dplnckef_dplanckA(spec, temp) ==
    LET xx == ADiv(SMul(pconst.c2f, spec), temp)
        f == ADiv(AMul(xx, AExp(xx)), AMul(temp, ASub1(AExp(xx))))
        y == ADiv(SMul(pconst.c1ef, APow(spec, 3)),
                  ASub1(AExp(ADiv(SMul(pconst.c2f, spec), temp))))
        dplanckA == AMul(f, y)
    IN  dplanckA

dplnckef(frequency, temp_arg) ==
    LET tempIn == NpArray(temp_arg)
        specIn == NpArray(frequency)
        grid == Meshgrid(specIn, tempIn)
        spec == Ravel(grid[1])
        temp == Ravel(grid[2])
        dplanckA == dplnckef_dplanckA(spec, temp)
    IN  Unflatten(dplanckA, tempIn, specIn)

\* dplnckel: the statements between the flattening and the unflattening
\* a slip: the derivative tests the exponent as planckel does
dplnckel_dplanckA_Guarded(spec, temp) ==
    LET xx == SDiv(pconst.c2l, AMul(spec, temp))
        dplanckA == ADiv(ADiv(AMul(SMul(pconst.c1el, xx), AExp(xx)),
                              ASub1(AExp(xx))),
                         AMul(AMul(temp, APow(spec, 5)), ASub1(AExp(xx))))
    IN  NpWhere(ALess(xx, explimit), dplanckA, Zero(1))

dplnckel_dplanckA(spec, temp) ==
    LET xx == SDiv(pconst.c2l, AMul(spec, temp))
        dplanckA == ADiv(ADiv(AMul(SMul(pconst.c1el, xx), AExp(xx)),
                              ASub1(AExp(xx))),
                         AMul(AMul(temp, APow(spec, 5)), ASub1(AExp(xx))))
    IN  dplanckA

dplnckel(wavelength, temp_arg) ==
    LET tempIn == NpArray(temp_arg)
        specIn == NpArray(wavelength)
        grid == Meshgrid(specIn, tempIn)
        spec == Ravel(grid[1])
        temp == Ravel(grid[2])
        dplanckA == dplnckel_dplanckA(spec, temp)
    IN  Unflatten(dplanckA, tempIn, specIn)

\* dplncken: the statements between the flattening and the unflattening
dplncken_dplanckA(spec, temp) ==
    LET xx == ADiv(SMul(pconst.c2n, spec), temp)
        f == ADiv(AMul(xx, AExp(xx)), AMul(temp, ASub1(AExp(xx))))
        y == ADiv(SMul(pconst.c1en, APow(spec, 3)),
                  ASub1(AExp(ADiv(SMul(pconst.c2n, spec), temp))))
        dplanckA == AMul(f, y)
    IN  dplanckA

dplncken(wavenumber, temp_arg) ==
    LET tempIn == NpArray(temp_arg)
        specIn == NpArray(wavenumber)
        grid == Meshgrid(specIn, tempIn)
        spec == Ravel(grid[1])
        temp == Ravel(grid[2])
        dplanckA == dplncken_dplanckA(spec, temp)
    IN  Unflatten(dplanckA, tempIn, specIn)

\* dplnckqf: the statements between the flattening and the unflattening
dplnckqf_dplanckA(spec, temp) ==
    LET xx == ADiv(SMul(pconst.c2f, spec), temp)
        f == ADiv(AMul(xx, AExp(xx)), AMul(temp, ASub1(AExp(xx))))
        y == ADiv(SMul(pconst.c1nf, APow(spec, 2)),
                  ASub1(AExp(ADiv(SMul(pconst.c2f, spec), temp))))
        dplanckA == AMul(f, y)
    IN  dplanckA

dplnckqf(frequency, temp_arg) ==
    LET tempIn == NpArray(temp_arg)
        specIn == NpArray(frequency)
        grid == Meshgrid(specIn, tempIn)
        spec == Ravel(grid[1])
        temp == Ravel(grid[2])
        dplanckA == dplnckqf_dplanckA(spec, temp)
    IN  Unflatten(dplanckA, tempIn, specIn)

\* dplnckql: the statements between the flattening and the unflattening
dplnckql_dplanckA(spec, temp) ==
    LET xx == SDiv(pconst.c2l, AMul(spec, temp))
        f == ADiv(AMul(xx, AExp(xx)), AMul(temp, ASub1(AExp(xx))))
        y == SDiv(pconst.c1ql,
                      AMul(APow(spec, 4),
                           ASub1(AExp(SDiv(pconst.c2l, AMul(temp, spec))))))
        dplanckA == AMul(f, y)
    IN  dplanckA

dplnckql(wavelength, temp_arg) ==
    LET tempIn == NpArray(temp_arg)
        specIn == NpArray(wavelength)
        grid == Meshgrid(specIn, tempIn)
        spec == Ravel(grid[1])
        temp == Ravel(grid[2])
        dplanckA == dplnckql_dplanckA(spec, temp)
    IN  Unflatten(dplanckA, tempIn, specIn)

\* dplnckqn: the statements between the flattening and the unflattening
dplnckqn_dplanckA(spec, temp) ==
    LET xx == ADiv(SMul(pconst.c2n, spec), temp)
        f == ADiv(AMul(xx, AExp(xx)), AMul(temp, ASub1(AExp(xx))))
        y == ADiv(SMul(pconst.c1qn, APow(spec, 2)),
                  ASub1(AExp(ADiv(SMul(pconst.c2n, spec), temp))))
        dplanckA == AMul(f, y)
    IN  dplanckA

\* a slip: the last case swaps the shape and leaves the elements where they were
dplnckqn_NoTranspose(wavenumber, temp_arg) ==
    LET tempIn == NpArray(temp_arg)
        specIn == NpArray(wavenumber)
        grid == Meshgrid(specIn, tempIn)
        spec == Ravel(grid[1])
        temp == Ravel(grid[2])
        dplanckA == dplnckqn_dplanckA(spec, temp)
    IN  IF tempIn.shape[1] # 1 /\ specIn.shape[1] # 1
        THEN Transpose_AsReshape(Reshape2(dplanckA, tempIn.shape[1]))
        ELSE Unflatten(dplanckA, tempIn, specIn)

dplnckqn(wavenumber, temp_arg) ==
    LET tempIn == NpArray(temp_arg)
        specIn == NpArray(wavenumber)
        grid == Meshgrid(specIn, tempIn)
        spec == Ravel(grid[1])
        temp == Ravel(grid[2])
        dplanckA == dplnckqn_dplanckA(spec, temp)
    IN  Unflatten(dplanckA, tempIn, specIn)

----------------------------------------------------------------------------
(* Stefan-Boltzmann and the dispatch on a selector *)

\* a call that leaves the selector out
Omitted == "<omitted>"

Selected(t, default) == IF t = Omitted THEN default ELSE t

\* temperature ** e: a Python number is raised exactly, a numpy integer wraps,
\* a list cannot be raised
PyPow(v, e) ==
    LET shape == IF IsScalarArg(v) THEN << >> ELSE << Len(v.data) >>
    IN  IF v.form = "list" THEN Raise("TypeError")
        ELSE IF v.form = "pyscalar" \/ v.dt = "f"
             THEN Ok(shape, [i \in 1..Len(v.data) |-> FPow(FromInt(v.data[i]), e)])
        ELSE Ok(shape, [i \in 1..Len(v.data) |-> FromInt(IPow(v.data[i], e))])

\* c * R for a Python float c
Scaled(c, R) ==
    IF R.tag = "raise" THEN R
    ELSE Ok(R.shape, [i \in 1..Len(R.d) |-> FMul(c, R.d[i])])

\* a slip: the selector is read by its first character
stefanboltzman_FirstChar(temp_arg, type_arg) ==
    LET t == Selected(type_arg, "e")
    IN  IF t \in {"e", "el", "ef", "en"} THEN Scaled(pconst.sigmae, PyPow(temp_arg, 4))
        ELSE IF t \in {"q", "ql", "qf", "qn"} THEN Scaled(pconst.sigmaq, PyPow(temp_arg, 3))
        ELSE Ok(<< >>, << FromInt(-1) >>)

stefanboltzman(temp_arg, type_arg) ==
    LET t == Selected(type_arg, "e")
    IN  IF t = "e" THEN Scaled(pconst.sigmae, PyPow(temp_arg, 4))
        ELSE IF t = "q" THEN Scaled(pconst.sigmaq, PyPow(temp_arg, 3))
        ELSE Ok(<< >>, << FromInt(-1) >>)

\* a slip: 'ef' and 'en' name each other's function
PlanckType_Swapped ==
    [el |-> "planckel", ef |-> "plancken", en |-> "planckef",
     ql |-> "planckql", qf |-> "planckqf", qn |-> "planckqn"]

\* the dictionaries plancktype and dplancktype
PlanckType ==
    [el |-> "planckel", ef |-> "planckef", en |-> "plancken",
     ql |-> "planckql", qf |-> "planckqf", qn |-> "planckqn"]

DPlanckType ==
    [el |-> "dplnckel", ef |-> "dplnckef", en |-> "dplncken",
     ql |-> "dplnckql", qf |-> "dplnckqf", qn |-> "dplnckqn"]

\* the call name(spec_arg, temp_arg) of one of the twelve functions
Apply(name, spec_arg, temp_arg) ==
    CASE name = "planckel" -> planckel(spec_arg, temp_arg)
      [] name = "planckef" -> planckef(spec_arg, temp_arg)
      [] name = "plancken" -> plancken(spec_arg, temp_arg)
      [] name = "planckql" -> planckql(spec_arg, temp_arg)
      [] name = "planckqf" -> planckqf(spec_arg, temp_arg)
      [] name = "planckqn" -> planckqn(spec_arg, temp_arg)
      [] name = "dplnckel" -> dplnckel(spec_arg, temp_arg)
      [] name = "dplnckef" -> dplnckef(spec_arg, temp_arg)
      [] name = "dplncken" -> dplncken(spec_arg, temp_arg)
      [] name = "dplnckql" -> dplnckql(spec_arg, temp_arg)
      [] name = "dplnckqf" -> dplnckqf(spec_arg, temp_arg)
      [] name = "dplnckqn" -> dplnckqn(spec_arg, temp_arg)

\* - numpy.ones(spectral.shape): spectral must have the attribute shape
MinusOnes(spec_arg) ==
    IF HasShape(spec_arg)
    THEN Ok(ShapeOf(spec_arg), [i \in 1..Prod(ShapeOf(spec_arg)) |-> FNeg(FromInt(1))])
    ELSE Raise("AttributeError")

planck(spec_arg, temp_arg, type_arg) ==
    LET t == Selected(type_arg, "el")
    IN  IF t \in DOMAIN plancktype
        THEN Apply(plancktype[t], spec_arg, temp_arg)
        ELSE MinusOnes(spec_arg)

dplanck(spec_arg, temp_arg, type_arg) ==
    LET t == Selected(type_arg, "el")
    IN  IF t \in DOMAIN dplancktype
        THEN Apply(dplancktype[t], spec_arg, temp_arg)
        ELSE MinusOnes(spec_arg)

----------------------------------------------------------------------------
(* The arguments the calls are given *)

Vals == {-1, 0, 1, BigVal}

Dtypes == {"i", "f"}

\* the strictly increasing sequences of n values
IncSeqs(n) == {s \in [1..n -> Vals] : \A i \in 1..(n - 1) : s[i] < s[i + 1]}

Vectors == UNION {IncSeqs(n) : n \in 1..MaxLen}

ScalarArgs(forms) == {Arg(f, dt, <<v>>) : f \in forms, dt \in Dtypes, v \in Vals}

VectorArgs(forms) == {Arg(f, dt, d) : f \in forms, dt \in Dtypes, d \in Vectors}

\* the twelve functions wrap both arguments in numpy.array(..., ndmin=1), which
\* takes a numpy scalar as a Python scalar and an ndarray as a list
SpecArgs == ScalarArgs({"pyscalar"}) \cup VectorArgs({"list"})

TempArgs == ScalarArgs({"pyscalar"}) \cup VectorArgs({"list"})

\* planck and dplanck read spectral.shape, which only numpy objects have, and
\* hand the temperature on untouched
DispatchSpecArgs == ScalarArgs({"pyscalar", "npscalar"}) \cup VectorArgs({"list", "ndarray"})

DispatchTempArgs ==
    {Arg("pyscalar", "f", << v >>) : v \in {0, BigVal}}
    \cup {Arg("list", "f", << 1, BigVal >>)}

\* stefanboltzman raises the temperature to a power
SbTempArgs == DispatchSpecArgs

\* the six selectors, one that is none of them, and the selector left out
PlanckSelectors == {"el", "ef", "en", "ql", "qf", "qn", "zz", Omitted}

\* the two quantities, selectors that are neither, and the selector left out
SbSelectors == {"e", "q", "el", "x", "", Omitted}

----------------------------------------------------------------------------
(* Loading the module, then calls one after the other: the single thread of *)
(* the caller makes a call, takes what it returns, and makes the next       *)

NoCall == [tag |-> "none", exc |-> "", shape |-> << >>, d |-> << >>]

\* chroma.py: a spectral grid of N increasing values, the radiance and the three
\* tristimulus curves sampled on it, all five of shape (N,) or all of shape (N,1)
ChromaVals == {0, 1, BigVal}

ChromaGrids == {d \in Vectors : \A i \in 1..Len(d) : d[i] \in ChromaVals}

Radiances(n) == [1..n -> {0, 1, 2}]

Tristimulus(n) == [1..n -> {0, 1}]

\* zbar: a flat curve; with the one that is negative throughout the three
\* integrals can cancel
ZCurves(n) == {[i \in 1..n |-> v] : v \in {-1, 0, 1}}

NoCurves == [radiance |-> NoArg, xbar |-> NoArg, ybar |-> NoArg, zbar |-> NoArg]

Curves(form, r, xb, yb, zb) ==
    [radiance |-> Arg(form, "f", r), xbar |-> Arg(form, "f", xb),
     ybar |-> Arg(form, "f", yb), zbar |-> Arg(form, "f", zb)]

Threads == 1..NumThreads

NoArray == Array("f", << 0 >>, << >>)

\* the frame of a thread that is in no call: the arguments, the local names of
\* the function, and the value returned.  alias holds the local names that are
\* bound to an array of the caller and to no copy of it
NoFrame ==
    [pc |-> "idle", fn |-> "", callee |-> "", spectral |-> NoArg,
     temperature |-> NoArg, type |-> "", curves |-> NoCurves,
     tempIn |-> NoArray, specIn |-> NoArray, alias |-> {},
     spec |-> NoArray, temp |-> NoArray, planckA |-> NoArray, rtnVal |-> NoCall]

Init ==
    /\ pyMajor \in {2, 3}
    /\ modstate = "importing"
    /\ built = 0
    /\ explimit = NoX
    /\ pconst = Unset
    /\ plancktype = << >>
    /\ dplancktype = << >>
    /\ fn = ""
    /\ spectral = NoArg
    /\ temperature = NoArg
    /\ type = ""
    /\ rtnVal = NoCall
    /\ curves = NoCurves
    /\ frame = [t \in Threads |-> NoFrame]

\* a slip: the test of the version is made and the import goes on
ImportGuard_GoesOn ==
    /\ modstate = "importing"
    /\ modstate' = "guarded"
    /\ UNCHANGED << pyMajor, built, explimit, pconst, plancktype, dplancktype,
                    fn, spectral, temperature, type, rtnVal, frame, curves >>

\* "if sys.version_info[0] > 2: print(...); exit(-1)"
ImportGuard ==
    /\ modstate = "importing"
    /\ modstate' = IF pyMajor > 2 THEN "exited" ELSE "guarded"
    /\ UNCHANGED << pyMajor, built, explimit, pconst, plancktype, dplancktype,
                    fn, spectral, temperature, type, rtnVal, frame, curves >>

\* the module body as far as "pconst = PlanckConstants()": explimit, the class,
\* and the one construction of the constants, root-finds included
BuildConstants ==
    /\ modstate = "guarded"
    /\ explimit' = ExpLimit
    /\ IF \E n \in 2..5 : brentq(n) = NoRoot
       THEN /\ pconst' = Unset
            /\ built' = built
            /\ modstate' = "failed"
       ELSE /\ pconst' = PlanckConstants
            /\ built' = built + 1
            /\ modstate' = "constants"
    /\ UNCHANGED << pyMajor, plancktype, dplancktype,
                    fn, spectral, temperature, type, rtnVal, frame, curves >>

\* the rest of the module body: the functions and the two tables; the import
\* is over and the caller has the module
LoadModule ==
    /\ modstate = "constants"
    /\ plancktype' = PlanckType
    /\ dplancktype' = DPlanckType
    /\ modstate' = "loaded"
    /\ UNCHANGED << pyMajor, built, explimit, pconst,
                    fn, spectral, temperature, type, rtnVal, frame, curves >>

\* the caller is between two calls
Idle == modstate = "loaded" /\ fn = ""

\* a slip: the constants are constructed again when a call is over
Return_Rebuilds ==
    /\ modstate = "loaded"
    /\ fn # ""
    /\ fn' = ""
    /\ spectral' = NoArg
    /\ temperature' = NoArg
    /\ type' = ""
    /\ rtnVal' = NoCall
    /\ curves' = NoCurves
    /\ pconst' = PlanckConstants
    /\ built' = built + 1
    /\ UNCHANGED << pyMajor, modstate, explimit, plancktype, dplancktype, frame >>

\* the caller takes the result of the call
Return ==
    /\ modstate = "loaded"
    /\ fn # ""
    /\ fn' = ""
    /\ spectral' = NoArg
    /\ temperature' = NoArg
    /\ type' = ""
    /\ rtnVal' = NoCall
    /\ curves' = NoCurves
    /\ UNCHANGED << globals, frame >>

\* a call of one of the twelve functions of two arguments
Call2(name) ==
    /\ Idle
    /\ \E s \in SpecArgs, t \in TempArgs :
          /\ fn' = name
          /\ spectral' = s
          /\ temperature' = t
          /\ type' = ""
          /\ rtnVal' = Apply(name, s, t)
    /\ UNCHANGED << globals, frame, curves >>

Call_planckel == Call2("planckel")
Call_planckef == Call2("planckef")
Call_plancken == Call2("plancken")
Call_planckql == Call2("planckql")
Call_planckqf == Call2("planckqf")
Call_planckqn == Call2("planckqn")
Call_dplnckel == Call2("dplnckel")
Call_dplnckef == Call2("dplnckef")
Call_dplncken == Call2("dplncken")
Call_dplnckql == Call2("dplnckql")
Call_dplnckqf == Call2("dplnckqf")
Call_dplnckqn == Call2("dplnckqn")

Call_planck ==
    /\ Idle
    /\ \E s \in DispatchSpecArgs, t \in DispatchTempArgs, ty \in PlanckSelectors :
          /\ fn' = "planck"
          /\ spectral' = s
          /\ temperature' = t
          /\ type' = ty
          /\ rtnVal' = planck(s, t, ty)
    /\ UNCHANGED << globals, frame, curves >>

Call_dplanck ==
    /\ Idle
    /\ \E s \in DispatchSpecArgs, t \in DispatchTempArgs, ty \in PlanckSelectors :
          /\ fn' = "dplanck"
          /\ spectral' = s
          /\ temperature' = t
          /\ type' = ty
          /\ rtnVal' = dplanck(s, t, ty)
    /\ UNCHANGED << globals, frame, curves >>

Call_stefanboltzman ==
    /\ Idle
    /\ \E t \in SbTempArgs, ty \in SbSelectors :
          /\ fn' = "stefanboltzman"
          /\ spectral' = NoArg
          /\ temperature' = t
          /\ type' = ty
          /\ rtnVal' = stefanboltzman(t, ty)
    /\ UNCHANGED << globals, frame, curves >>

\* a slip: the printed, rounded value is stored back
Call_printConstants_Stores ==
    /\ Idle
    /\ fn' = "printConstants"
    /\ spectral' = NoArg
    /\ temperature' = NoArg
    /\ type' = ""
    /\ rtnVal' = Ok(<< >>, << >>)
    /\ pconst' = [pconst EXCEPT !.zeta3 = Const("zeta3, 14 digits")]
    /\ UNCHANGED << pyMajor, modstate, built, explimit, plancktype, dplancktype,
                    frame, curves >>

\* pconst.printConstants(): reads the fields, prints them, returns None
Call_printConstants ==
    /\ Idle
    /\ fn' = "printConstants"
    /\ spectral' = NoArg
    /\ temperature' = NoArg
    /\ type' = ""
    /\ rtnVal' = Ok(<< >>, << >>)
    /\ UNCHANGED << globals, frame, curves >>

\* chroma.py: one call of chromaticityforSpectralL
Call_chromaticityforSpectralL ==
    /\ Idle
    /\ \E form \in {"ndarray", "column"}, g \in ChromaGrids :
          \E r \in Radiances(Len(g)), xb \in Tristimulus(Len(g)),
             yb \in Tristimulus(Len(g)), zb \in ZCurves(Len(g)) :
              /\ fn' = "chromaticityforSpectralL"
              /\ spectral' = Arg(form, "f", g)
              /\ curves' = Curves(form, r, xb, yb, zb)
              /\ rtnVal' = chromaticityforSpectralL(spectral', curves'.radiance,
                                                    curves'.xbar, curves'.ybar,
                                                    curves'.zbar)
    /\ UNCHANGED << globals, temperature, type, frame >>

Next ==
    \/ ImportGuard
    \/ BuildConstants
    \/ LoadModule
    \/ Call_planckel
    \/ Call_planckef
    \/ Call_plancken
    \/ Call_planckql
    \/ Call_planckqf
    \/ Call_planckqn
    \/ Call_dplnckel
    \/ Call_dplnckef
    \/ Call_dplncken
    \/ Call_dplnckql
    \/ Call_dplnckqf
    \/ Call_dplnckqn
    \/ Call_planck
    \/ Call_dplanck
    \/ Call_stefanboltzman
    \/ Call_printConstants
    \/ Return

Spec == Init /\ [][Next]_vars

\* chroma.py: its caller has imported pyradi.planck (line 90) and calls
\* chromaticityforSpectralL
ChromaInit ==
    /\ pyMajor = 2
    /\ modstate = "loaded"
    /\ built = 1
    /\ explimit = ExpLimit
    /\ pconst = PlanckConstants
    /\ plancktype = PlanckType
    /\ dplancktype = DPlanckType
    /\ fn = ""
    /\ spectral = NoArg
    /\ temperature = NoArg
    /\ type = ""
    /\ rtnVal = NoCall
    /\ curves = NoCurves
    /\ frame = [t \in Threads |-> NoFrame]

ChromaNext == Call_chromaticityforSpectralL \/ Return

ChromaSpec == ChromaInit /\ [][ChromaNext]_vars

----------------------------------------------------------------------------
(* The module in a concurrent host: it is loaded, and each thread makes calls, *)
(* one statement group at a time, in its own frame                           *)

\* the flat array each of the twelve functions computes from spec and temp
Flat(name, spec, temp) ==
    CASE name = "planckel" -> planckel_planckA(spec, temp)
      [] name = "planckef" -> planckef_planckA(spec, temp)
      [] name = "plancken" -> plancken_planckA(spec, temp)
      [] name = "planckql" -> planckql_planckA(spec, temp)
      [] name = "planckqf" -> planckqf_planckA(spec, temp)
      [] name = "planckqn" -> planckqn_planckA(spec, temp)
      [] name = "dplnckel" -> dplnckel_dplanckA(spec, temp)
      [] name = "dplnckef" -> dplnckef_dplanckA(spec, temp)
      [] name = "dplncken" -> dplncken_dplanckA(spec, temp)
      [] name = "dplnckql" -> dplnckql_dplanckA(spec, temp)
      [] name = "dplnckqf" -> dplnckqf_dplanckA(spec, temp)
      [] name = "dplnckqn" -> dplnckqn_dplanckA(spec, temp)

Job(f, s, t, ty) ==
    [fn |-> f, spectral |-> s, temperature |-> t, type |-> ty, curves |-> NoCurves]

\* a call of chromaticityforSpectralL on a grid g
ChromaJob(form, g, r, xb, yb, zb) ==
    [fn |-> "chromaticityforSpectralL", spectral |-> Arg(form, "f", g),
     temperature |-> NoArg, type |-> "", curves |-> Curves(form, r, xb, yb, zb)]

ThreadVector == << 1, BigVal >>

\* the calls the threads make: results of every shape, a dispatch that finds its
\* selector and one that does not, a Stefan-Boltzmann integral and a chromaticity
ThreadJobs ==
    {Job(f, Arg("list", "f", ThreadVector), t, "") :
        f \in {"planckel", "dplnckqn"},
        t \in {Arg("pyscalar", "f", << BigVal >>), Arg("list", "f", ThreadVector)}}
    \cup {Job("planck", Arg("ndarray", "f", << BigVal >>),
              Arg("list", "f", ThreadVector), ty) : ty \in {"en", "zz"}}
    \cup {Job("dplanck", Arg("ndarray", "f", ThreadVector),
              Arg("pyscalar", "f", << 1 >>), Omitted)}
    \cup {Job("stefanboltzman", NoArg, Arg("pyscalar", "f", << BigVal >>), "q")}
    \cup {ChromaJob("column", ThreadVector, << 1, 2 >>, << 0, 1 >>, << 1, 1 >>, << 1, 0 >>)}

ThreadInit ==
    /\ pyMajor = 2
    /\ modstate = "loaded"
    /\ built = 1
    /\ explimit = ExpLimit
    /\ pconst = PlanckConstants
    /\ plancktype = PlanckType
    /\ dplancktype = DPlanckType
    /\ fn = ""
    /\ spectral = NoArg
    /\ temperature = NoArg
    /\ type = ""
    /\ rtnVal = NoCall
    /\ curves = NoCurves
    /\ frame = [t \in Threads |-> NoFrame]

\* thread t calls a function: a new frame holds the arguments
T_Call(t) ==
    /\ frame[t].pc = "idle"
    /\ \E j \in ThreadJobs :
          frame' = [frame EXCEPT ![t] =
                       [NoFrame EXCEPT
                           !.fn = j.fn, !.spectral = j.spectral,
                           !.temperature = j.temperature, !.type = j.type,
                           !.curves = j.curves,
                           !.callee = IF j.fn \in {"planck", "dplanck", "stefanboltzman",
                                                   "chromaticityforSpectralL"}
                                      THEN "" ELSE j.fn,
                           !.pc = IF j.fn \in {"planck", "dplanck"} THEN "lookup"
                                  ELSE IF j.fn = "stefanboltzman" THEN "power"
                                  ELSE IF j.fn = "chromaticityforSpectralL"
                                       THEN "integrate"
                                  ELSE "wrap"]]
    /\ UNCHANGED << globals, caller >>

\* planck, dplanck: "if type in plancktype.keys()": the function found is
\* called with the arguments, or - numpy.ones(spectral.shape) is returned
T_Lookup(t) ==
    /\ frame[t].pc = "lookup"
    /\ LET f == frame[t]
           ty == Selected(f.type, "el")
           table == IF f.fn = "planck" THEN plancktype ELSE dplancktype
       IN  frame' = [frame EXCEPT ![t] =
                        IF ty \in DOMAIN table
                        THEN [f EXCEPT !.callee = table[ty], !.pc = "wrap"]
                        ELSE [f EXCEPT !.rtnVal = MinusOnes(f.spectral), !.pc = "done"]]
    /\ UNCHANGED << globals, caller >>

\* with copy=False an ndarray of rank 1 or more is handed back as it is, and
\* anything else is copied into a new array
Aliases(f) ==
    (IF f.temperature.form \in {"ndarray", "column"} THEN {"tempIn"} ELSE {})
    \cup (IF f.spectral.form \in {"ndarray", "column"} THEN {"specIn"} ELSE {})

\* a slip: the wavelengths are scaled to metres in specIn itself
\* ("specIn *= 1e-6"), which is the caller's array when the caller passed an
\* ndarray
T_Wrap_InPlace(t) ==
    /\ frame[t].pc = "wrap"
    /\ LET f == frame[t]
           scaled == [f.spectral EXCEPT !.den = @ * 1000000]
       IN  frame' = [frame EXCEPT ![t] =
                        [f EXCEPT !.tempIn = NpArray(f.temperature),
                                  !.specIn = NpArray(scaled),
                                  !.alias = Aliases(f),
                                  !.spectral = IF "specIn" \in Aliases(f)
                                               THEN scaled ELSE f.spectral,
                                  !.pc = "grid"]]
    /\ UNCHANGED << globals, caller >>

\* "tempIn = numpy.array(temperature, copy=False, ndmin=1); specIn = ..."
T_Wrap(t) ==
    /\ frame[t].pc = "wrap"
    /\ LET f == frame[t]
       IN  frame' = [frame EXCEPT ![t] =
                        [f EXCEPT !.tempIn = NpArray(f.temperature),
                                  !.specIn = NpArray(f.spectral),
                                  !.alias = Aliases(f),
                                  !.pc = "grid"]]
    /\ UNCHANGED << globals, caller >>

\* a slip: spec and temp are names of the module, which every call in progress
\* reads, and no local names of the call
T_Grid_Shared(t) ==
    /\ frame[t].pc = "grid"
    /\ LET grid == Meshgrid(frame[t].specIn, frame[t].tempIn)
       IN  frame' = [u \in Threads |->
                        IF u = t
                        THEN [frame[t] EXCEPT !.spec = Ravel(grid[1]),
                                              !.temp = Ravel(grid[2]), !.pc = "flat"]
                        ELSE IF frame[u].pc \in {"grid", "flat"}
                             THEN [frame[u] EXCEPT !.spec = Ravel(grid[1]),
                                                   !.temp = Ravel(grid[2])]
                        ELSE frame[u]]
    /\ UNCHANGED << globals, caller >>

\* "specgrid, tempgrid = numpy.meshgrid(specIn, tempIn); spec = ...; temp = ..."
T_Grid(t) ==
    /\ frame[t].pc = "grid"
    /\ LET grid == Meshgrid(frame[t].specIn, frame[t].tempIn)
       IN  frame' = [frame EXCEPT ![t] =
                        [@ EXCEPT !.spec = Ravel(grid[1]), !.temp = Ravel(grid[2]),
                                  !.pc = "flat"]]
    /\ UNCHANGED << globals, caller >>

\* the statements that compute planckA (dplanckA) from spec, temp, pconst and
\* explimit
T_Flat(t) ==
    /\ frame[t].pc = "flat"
    /\ frame' = [frame EXCEPT ![t] =
                    [@ EXCEPT !.planckA = Flat(frame[t].callee, frame[t].spec,
                                               frame[t].temp),
                              !.pc = "unflatten"]]
    /\ UNCHANGED << globals, caller >>

\* "now unflatten to proper structure again", and the return
T_Unflatten(t) ==
    /\ frame[t].pc = "unflatten"
    /\ frame' = [frame EXCEPT ![t] =
                    [@ EXCEPT !.rtnVal = Unflatten(frame[t].planckA, frame[t].tempIn,
                                                   frame[t].specIn),
                              !.pc = "done"]]
    /\ UNCHANGED << globals, caller >>

\* stefanboltzman: the dictionary of the two lambdas is local to the call
T_StefanBoltzman(t) ==
    /\ frame[t].pc = "power"
    /\ frame' = [frame EXCEPT ![t] =
                    [@ EXCEPT !.rtnVal = stefanboltzman(frame[t].temperature,
                                                        frame[t].type),
                              !.pc = "done"]]
    /\ UNCHANGED << globals, caller >>

\* chroma.py: the three integrals over views of the arguments, the two
\* quotients and the list returned
T_Chromaticity(t) ==
    /\ frame[t].pc = "integrate"
    /\ LET f == frame[t]
       IN  frame' = [frame EXCEPT ![t] =
                        [f EXCEPT !.rtnVal = chromaticityforSpectralL(
                                                f.spectral, f.curves.radiance,
                                                f.curves.xbar, f.curves.ybar,
                                                f.curves.zbar),
                                  !.pc = "done"]]
    /\ UNCHANGED << globals, caller >>

\* the thread takes the value returned; the frame is gone
T_Return(t) ==
    /\ frame[t].pc = "done"
    /\ frame' = [frame EXCEPT ![t] = NoFrame]
    /\ UNCHANGED << globals, caller >>

ThreadNext ==
    \E t \in Threads :
        \/ T_Call(t)
        \/ T_Lookup(t)
        \/ T_Wrap(t)
        \/ T_Grid(t)
        \/ T_Flat(t)
        \/ T_Unflatten(t)
        \/ T_StefanBoltzman(t)
        \/ T_Chromaticity(t)
        \/ T_Return(t)

ThreadSpec == ThreadInit /\ [][ThreadNext]_vars

----------------------------------------------------------------------------
(* What the properties below speak of *)

ExitanceFns == {"planckel", "planckef", "plancken", "planckql", "planckqf", "planckqn"}

DerivativeFns == {"dplnckel", "dplnckef", "dplncken", "dplnckql", "dplnckqf", "dplnckqn"}

SixSelectors == {"el", "ef", "en", "ql", "qf", "qn"}

\* the number of values an argument holds
NVals(v) == Len(v.data)

\* value i of an argument, passed alone as a Python scalar
ScalarOf(v, i) == Arg("pyscalar", v.dt, << v.data[i] >>)

\* the element of a result that belongs to spectral value i and temperature j
PairElem(R, i, j) ==
    IF R.shape = << >> THEN R.d[1]
    ELSE IF Len(R.shape) = 1 THEN At1(R, i)
    ELSE At2(R, i, j)

\* the exponent each exitance function computes for flat arrays spec and temp
Exponent(name, spec, temp) ==
    CASE name = "planckef" -> ADiv(SMul(pconst.c2f, spec), temp)
      [] name = "planckel" -> SDiv(pconst.c2l, AMul(spec, temp))
      [] name = "plancken" -> SMul(pconst.c2n, ADiv(spec, temp))
      [] name = "planckqf" -> ADiv(SMul(pconst.c2f, spec), temp)
      [] name = "planckql" -> SDiv(pconst.c2l, AMul(spec, temp))
      [] name = "planckqn" -> ADiv(SMul(pconst.c2n, spec), temp)

\* the formula each exitance function applies, without the test of the exponent
Unguarded(name, spec, temp) ==
    LET em1 == ASub1(AExp(Exponent(name, spec, temp)))
    IN  CASE name = "planckef" -> ADiv(SMul(pconst.c1ef, APow(spec, 3)), em1)
          [] name = "planckel" -> ADiv(SDiv(pconst.c1el, em1), APow(spec, 5))
          [] name = "plancken" -> ADiv(SMul(pconst.c1en, APow(spec, 3)), em1)
          [] name = "planckqf" -> ADiv(SMul(pconst.c1nf, APow(spec, 2)), em1)
          [] name = "planckql" -> ADiv(SDiv(pconst.c1ql, em1), APow(spec, 4))
          [] name = "planckqn" -> ADiv(SMul(pconst.c1qn, APow(spec, 2)), em1)

\* v >= lim; a comparison with NaN is false
FGeq(v, lim) == v.k # "nan" /\ ~FLess(v, lim)

----------------------------------------------------------------------------
(* C1 *)

\* C1: with a spectral vector of length N > 1 and a temperature vector of length
\* M > 1, each exitance function returns an array of shape (N, M) whose element
\* [i][j] is what the function gives for spectral[i] and temperature[j] alone.
C1_BothVectorShape ==
    (fn \in ExitanceFns /\ NVals(spectral) > 1 /\ NVals(temperature) > 1) =>
        /\ rtnVal.tag = "ok"
        /\ rtnVal.shape = << NVals(spectral), NVals(temperature) >>
        /\ \A i \in 1..NVals(spectral), j \in 1..NVals(temperature) :
              At2(rtnVal, i, j) =
                  Apply(fn, ScalarOf(spectral, i), ScalarOf(temperature, j)).d[1]

C1_Witness ==
    /\ fn = "planckel"
    /\ NVals(spectral) = 2 /\ NVals(temperature) = 2
    /\ rtnVal.shape = <<2, 2>>
    /\ At2(rtnVal, 1, 2) # At2(rtnVal, 2, 1)
    /\ At2(rtnVal, 2, 2).k = "fin"

----------------------------------------------------------------------------
(* C2 *)

\* C2: with a single spectral value and a temperature vector of length M > 1,
\* each exitance function returns a rank-1 vector of length M, indexed by
\* temperature.  (The functions return an array of shape (1, M).)
C2_ScalarSpectralRank1 ==
    (fn \in ExitanceFns /\ NVals(spectral) = 1 /\ NVals(temperature) > 1) =>
        /\ rtnVal.tag = "ok"
        /\ rtnVal.shape = << NVals(temperature) >>
        /\ \A j \in 1..NVals(temperature) :
              At1(rtnVal, j) =
                  Apply(fn, ScalarOf(spectral, 1), ScalarOf(temperature, j)).d[1]

----------------------------------------------------------------------------
(* C3 *)

\* C3 as claimed: with a spectral vector of any length N >= 1 and a scalar
\* temperature, each exitance function returns a rank-1 sequence of length N.
C3_AnyLengthRank1 ==
    (fn \in ExitanceFns /\ IsVectorArg(spectral) /\ IsScalarArg(temperature)) =>
        /\ rtnVal.tag = "ok"
        /\ rtnVal.shape = << NVals(spectral) >>

\* C3 as amended: with a spectral vector of length N > 1 and a scalar
\* temperature, each exitance function returns a rank-1 sequence of length N
\* whose element i is what the function gives for spectral[i] alone.
C3_VectorSpectralRank1 ==
    (fn \in ExitanceFns /\ IsVectorArg(spectral) /\ NVals(spectral) > 1
                        /\ IsScalarArg(temperature)) =>
        /\ rtnVal.tag = "ok"
        /\ rtnVal.shape = << NVals(spectral) >>
        /\ \A i \in 1..NVals(spectral) :
              At1(rtnVal, i) = Apply(fn, ScalarOf(spectral, i), temperature).d[1]

C3_Witness ==
    /\ fn = "planckqn"
    /\ IsVectorArg(spectral) /\ NVals(spectral) = 2
    /\ IsScalarArg(temperature)
    /\ rtnVal.shape = <<2>>
    /\ At1(rtnVal, 1) # At1(rtnVal, 2)

----------------------------------------------------------------------------
(* C4 *)

\* C4: when the spectral variable and the temperature are both single numbers
\* (a scalar or a list of one element, in any combination), each exitance
\* function returns a bare scalar.
C4_BothSingleScalar ==
    (fn \in ExitanceFns /\ NVals(spectral) = 1 /\ NVals(temperature) = 1) =>
        /\ rtnVal.tag = "ok"
        /\ rtnVal.shape = << >>
        /\ Len(rtnVal.d) = 1

C4_Witness ==
    /\ fn = "planckef"
    /\ spectral.form = "list" /\ NVals(spectral) = 1
    /\ temperature.form = "pyscalar"
    /\ rtnVal.shape = << >>
    /\ rtnVal.d[1].k = "fin"

----------------------------------------------------------------------------
(* C5 *)

\* C5: in each exitance function the test of the exponent is made element by
\* element: an element whose exponent is >= 709.7 is exactly 0, and an element
\* of the same call whose exponent is < 709.7 has the value of the formula
\* without the test, whatever the other elements are.
C5_GuardElementwise ==
    fn \in ExitanceFns =>
        /\ rtnVal.tag = "ok"
        /\ \A i \in 1..NVals(spectral), j \in 1..NVals(temperature) :
              LET spec == NpArray(ScalarOf(spectral, i))
                  temp == NpArray(ScalarOf(temperature, j))
                  x == Exponent(fn, spec, temp).d[1]
                  e == PairElem(rtnVal, i, j)
              IN  /\ FGeq(x, Rat(7097, 10)) => e = Zero(1)
                  /\ FLess(x, Rat(7097, 10)) => e = Unguarded(fn, spec, temp).d[1]

\* one call with an element the test forces to 0 and an element it leaves alone
C5_Witness ==
    /\ fn = "planckel"
    /\ rtnVal.tag = "ok"
    /\ \E i \in 1..NVals(spectral), j \in 1..NVals(temperature) :
          /\ FGeq(Exponent(fn, NpArray(ScalarOf(spectral, i)),
                           NpArray(ScalarOf(temperature, j))).d[1], Rat(7097, 10))
          /\ spectral.data[i] = 1 /\ temperature.data[j] = 1
          /\ PairElem(rtnVal, i, j) = Zero(1)
    /\ \E i \in 1..NVals(spectral), j \in 1..NVals(temperature) :
          /\ FLess(Exponent(fn, NpArray(ScalarOf(spectral, i)),
                            NpArray(ScalarOf(temperature, j))).d[1], Rat(7097, 10))
          /\ PairElem(rtnVal, i, j).k = "fin"

----------------------------------------------------------------------------
(* C6 *)

\* C6: for a selector that is none of the six, and for every spectral input
\* the functions take (scalar, list or array), planck and dplanck raise no
\* exception and return an array of -1 of the shape of the spectral input.
\* (A Python scalar and a list have no attribute shape.)
C6_UnknownSelectorMinusOnes ==
    (fn \in {"planck", "dplanck"} /\ Selected(type, "el") \notin SixSelectors) =>
        /\ rtnVal.tag = "ok"
        /\ rtnVal.shape = (IF IsScalarArg(spectral) THEN << >> ELSE << NVals(spectral) >>)
        /\ \A k \in 1..Len(rtnVal.d) : rtnVal.d[k] = FromInt(-1)

----------------------------------------------------------------------------
(* C7 *)

----------------------------------------------------------------------------
(* C8 *)

\* the function the claim pairs with each selector
C8_Exitance(t) ==
    CASE t = "el" -> "planckel" [] t = "ef" -> "planckef" [] t = "en" -> "plancken"
      [] t = "ql" -> "planckql" [] t = "qf" -> "planckqf" [] t = "qn" -> "planckqn"

C8_Derivative(t) ==
    CASE t = "el" -> "dplnckel" [] t = "ef" -> "dplnckef" [] t = "en" -> "dplncken"
      [] t = "ql" -> "dplnckql" [] t = "qf" -> "dplnckqf" [] t = "qn" -> "dplnckqn"

\* C8: for each of the six selectors planck returns what the exitance function
\* of that quantity and domain returns, dplanck what the matching derivative
\* returns, and with the selector left out both use 'el'.
C8_DispatchExact ==
    LET t == IF type = Omitted THEN "el" ELSE type
    IN  /\ (fn = "planck" /\ t \in SixSelectors) =>
               rtnVal = Apply(C8_Exitance(t), spectral, temperature)
        /\ (fn = "dplanck" /\ t \in SixSelectors) =>
               rtnVal = Apply(C8_Derivative(t), spectral, temperature)

C8_Witness ==
    /\ fn = "dplanck"
    /\ type = Omitted
    /\ rtnVal.tag = "ok"
    /\ rtnVal = dplnckel(spectral, temperature)
    /\ rtnVal # dplnckql(spectral, temperature)
    /\ \E k \in 1..Len(rtnVal.d) : rtnVal.d[k].k = "fin"

----------------------------------------------------------------------------
(* C9 *)

\* C9: each of the twelve functions raises nothing for finite numbers given as
\* a scalar or as a rank-1 sequence of length >= 1, zero and negative values
\* included: every such call returns a value.
C9_NoException ==
    /\ fn \in ExitanceFns \cup DerivativeFns => rtnVal.tag = "ok"
    /\ (fn \in {"planck", "dplanck"} /\ Selected(type, "el") \in SixSelectors) =>
           rtnVal.tag = "ok"

C9_Witness ==
    /\ fn = "dplnckef"
    /\ \E i \in 1..NVals(spectral) : spectral.data[i] < 0
    /\ \E j \in 1..NVals(temperature) : temperature.data[j] = 0
    /\ NVals(spectral) > 1 /\ NVals(temperature) > 1
    /\ rtnVal.tag = "ok"
    /\ \E k \in 1..Len(rtnVal.d) : rtnVal.d[k].k = "nan"

----------------------------------------------------------------------------
(* C10 *)

\* the formula of the table, in real arithmetic: c1 * s^p / (e^x - 1) for the
\* wavenumber and the frequency, c1 / (s^p * (e^x - 1)) for the wavelength
C10_Table(name, s, t) ==
    LET l == FromInt(s)
        T == FromInt(t)
        xl == FDiv(pconst.c2l, FMul(l, T))
        xn == FDiv(FMul(pconst.c2n, l), T)
        xf == FDiv(FMul(pconst.c2f, l), T)
    IN  CASE name = "planckel" ->
                 FDiv(pconst.c1el, FMul(FPow(l, 5), FSub1(FExp(xl))))
          [] name = "planckql" ->
                 FDiv(pconst.c1ql, FMul(FPow(l, 4), FSub1(FExp(xl))))
          [] name = "plancken" ->
                 FDiv(FMul(pconst.c1en, FPow(l, 3)), FSub1(FExp(xn)))
          [] name = "planckqn" ->
                 FDiv(FMul(pconst.c1qn, FPow(l, 2)), FSub1(FExp(xn)))
          [] name = "planckef" ->
                 FDiv(FMul(pconst.c1ef, FPow(l, 3)), FSub1(FExp(xf)))
          [] name = "planckqf" ->
                 FDiv(FMul(pconst.c1nf, FPow(l, 2)), FSub1(FExp(xf)))

\* C10: for the elements whose exponent is below 709.7, each exitance function
\* computes the formula of the table with its own constants and power.
C10_TableFormula ==
    fn \in ExitanceFns =>
        /\ rtnVal.tag = "ok"
        /\ \A i \in 1..NVals(spectral), j \in 1..NVals(temperature) :
              FLess(Exponent(fn, NpArray(ScalarOf(spectral, i)),
                             NpArray(ScalarOf(temperature, j))).d[1], Rat(7097, 10)) =>
                  PairElem(rtnVal, i, j) =
                      C10_Table(fn, spectral.data[i], temperature.data[j])

----------------------------------------------------------------------------
(* C11 *)

\* C11: for every scalar temperature T, stefanboltzman(T, 'e') is sigmae * T^4,
\* stefanboltzman(T, 'q') is sigmaq * T^3, and with the selector left out the
\* result is the radiant one.  (T ** 4 of a numpy integer wraps.)
C11_StefanBoltzmanFormula ==
    (fn = "stefanboltzman" /\ IsScalarArg(temperature)) =>
        LET T == FromInt(temperature.data[1])
        IN  /\ type \in {"e", Omitted} =>
                   rtnVal = Ok(<< >>, << FMul(Const("sigmae"), FPow(T, 4)) >>)
            /\ type = "q" =>
                   rtnVal = Ok(<< >>, << FMul(Const("sigmaq"), FPow(T, 3)) >>)

----------------------------------------------------------------------------
(* C12 *)

\* the exitance function of the same domain and quantity as a derivative
ExitanceOf(name) ==
    plancktype[CHOOSE t \in DOMAIN dplancktype : dplancktype[t] = name]

\* C12: for every combination of scalar and vector inputs, each derivative
\* function returns a result of the shape the exitance function of the same
\* domain and quantity returns for those inputs, and in both results the element
\* at the index of spectral[i] and temperature[j] is the value for that pair.
C12_DerivativeSameShape ==
    fn \in DerivativeFns =>
        LET eta == Apply(ExitanceOf(fn), spectral, temperature)
        IN  /\ rtnVal.tag = "ok" /\ eta.tag = "ok"
            /\ rtnVal.shape = eta.shape
            /\ \A i \in 1..NVals(spectral), j \in 1..NVals(temperature) :
                  /\ PairElem(rtnVal, i, j) =
                         Apply(fn, ScalarOf(spectral, i), ScalarOf(temperature, j)).d[1]
                  /\ PairElem(eta, i, j) =
                         Apply(ExitanceOf(fn), ScalarOf(spectral, i),
                               ScalarOf(temperature, j)).d[1]

C12_Witness ==
    /\ fn = "dplnckqn"
    /\ NVals(spectral) = 2 /\ NVals(temperature) = 2
    /\ rtnVal.shape = <<2, 2>>
    /\ planckqn(spectral, temperature).shape = <<2, 2>>
    /\ At2(rtnVal, 1, 2) # At2(rtnVal, 2, 1)
    /\ \A k \in 1..4 : rtnVal.d[k].k = "fin"

----------------------------------------------------------------------------
(* C13 *)

\* the wavenumber 1e4 / l cm^-1 of the wavelength l um, counted in 100 cm^-1
WavenumberOf(l) == FloatArg("pyscalar", << 100 >>, l)

\* the frequency c / (l * 1e-6) Hz of the wavelength l um, counted in 1e13 Hz
FrequencyOf(l) == FloatArg("pyscalar", << 30 >>, l)

\* C13: for every wavelength l > 0 and temperature T > 0, with n = 1e4 / l and
\* f = c / (l * 1e-6), the exponents c2l / (l T), c2n n / T and c2f f / T are
\* equal and planckel(l, T) = plancken(n, T) * n / l = planckef(f, T) * f / l.
\* (For an integer-typed wavelength l ** 5 wraps.)
C13_Jacobian ==
    fn = "planckel" =>
        \A i \in 1..NVals(spectral), j \in 1..NVals(temperature) :
            (spectral.data[i] > 0 /\ temperature.data[j] > 0) =>
                LET l == FromInt(spectral.data[i])
                    T == ScalarOf(temperature, j)
                    n == WavenumberOf(spectral.data[i])
                    f == FrequencyOf(spectral.data[i])
                    nPerL == FDiv(E10(NpArray(n).d[1], 2), l)
                    fPerL == FDiv(E10(NpArray(f).d[1], 13), l)
                    xl == Exponent("planckel", NpArray(ScalarOf(spectral, i)),
                                   NpArray(T)).d[1]
                    xn == Exponent("plancken", NpArray(n), NpArray(T)).d[1]
                    xf == Exponent("planckef", NpArray(f), NpArray(T)).d[1]
                IN  /\ xl = xn /\ xl = xf
                    /\ rtnVal.tag = "ok"
                    /\ PairElem(rtnVal, i, j) = FMul(plancken(n, T).d[1], nPerL)
                    /\ PairElem(rtnVal, i, j) = FMul(planckef(f, T).d[1], fPerL)

----------------------------------------------------------------------------
(* C14 *)

\* C14: once the module is loaded, no call of the twelve functions, of planck,
\* dplanck, stefanboltzman or printConstants changes a field of pconst, the
\* limit explimit, or the tables plancktype and dplancktype.
C14_GlobalsReadOnly ==
    [][modstate = "loaded" =>
          /\ pconst' = pconst
          /\ explimit' = explimit
          /\ plancktype' = plancktype
          /\ dplancktype' = dplancktype]_vars

C14_Witness ==
    /\ fn = "printConstants"
    /\ rtnVal.tag = "ok"
    /\ pconst = PlanckConstants
    /\ explimit = ExpLimit
    /\ plancktype = PlanckType
    /\ dplancktype = DPlanckType

----------------------------------------------------------------------------
(* C15 *)

\* C15: the constants are constructed exactly once, while the module loads; the
\* construction, root-finds included, is over before a call of a function, of a
\* dispatcher or of stefanboltzman starts, and no call constructs them again.
C15_ConstructedOnce ==
    /\ built <= 1
    /\ modstate \in {"constants", "loaded"} => built = 1
    /\ fn # "" =>
          /\ built = 1
          /\ pconst = PlanckConstants
          /\ \A r \in {"a2", "a3", "a4", "a5"} : r \in DOMAIN pconst

\* a second call has been made and the constants are those of the load
C15_Witness ==
    /\ fn = "stefanboltzman"
    /\ type = "q"
    /\ rtnVal.tag = "ok"
    /\ built = 1
    /\ pconst = PlanckConstants

----------------------------------------------------------------------------
(* C16 *)

\* what the call of a frame returns when it runs alone
Alone(f) ==
    CASE f.fn = "planck" -> planck(f.spectral, f.temperature, f.type)
      [] f.fn = "dplanck" -> dplanck(f.spectral, f.temperature, f.type)
      [] f.fn = "stefanboltzman" -> stefanboltzman(f.temperature, f.type)
      [] f.fn = "chromaticityforSpectralL" ->
            chromaticityforSpectralL(f.spectral, f.curves.radiance, f.curves.xbar,
                                     f.curves.ybar, f.curves.zbar)
      [] OTHER -> Apply(f.fn, f.spectral, f.temperature)

\* C16: when the calls of several threads interleave in any order, each call
\* returns what it returns when run alone, and a step of one call changes
\* neither the frame of another call nor the state of the module.
C16_Reentrant ==
    [][/\ \A t \in Threads :
             frame'[t].pc = "done" => frame'[t].rtnVal = Alone(frame'[t])
       /\ \A t, u \in Threads :
             (t # u /\ frame'[t] # frame[t]) => frame'[u] = frame[u]
       /\ UNCHANGED globals]_vars

\* one call is over while a call of another function, begun before it ended,
\* is between two of its statements
C16_Witness ==
    /\ frame[1].pc = "done"
    /\ frame[1].fn = "planck"
    /\ frame[1].callee = "plancken"
    /\ frame[1].rtnVal.tag = "ok"
    /\ frame[1].rtnVal = Alone(frame[1])
    /\ frame[2].pc = "flat"
    /\ frame[2].fn = "dplnckqn"
    /\ frame[2].spec # frame[1].spec

----------------------------------------------------------------------------
(* C18 *)

\* v >= 0 as IEEE compares: true of both zeros and +Inf, false of NaN
NonNegative(v) == v.k # "nan" /\ (v.k = "zero" \/ v.sg = 1)

AllPositive(v) == \A i \in 1..NVals(v) : v.data[i] > 0

\* C18: for strictly positive finite spectral values and temperatures, every
\* element an exitance function returns is >= 0
C18_NonNegative ==
    (fn \in ExitanceFns /\ AllPositive(spectral) /\ AllPositive(temperature)) =>
        /\ rtnVal.tag = "ok"
        /\ \A k \in 1..Len(rtnVal.d) : NonNegative(rtnVal.d[k])

----------------------------------------------------------------------------
(* C19 *)

\* C19: an exitance function given a zero or negative temperature with a
\* positive spectral value does not fail, and the element it returns for that
\* pair is NaN or Inf
C19_NaNOrInf ==
    fn \in ExitanceFns =>
        \A i \in 1..NVals(spectral), j \in 1..NVals(temperature) :
            (spectral.data[i] > 0 /\ temperature.data[j] <= 0) =>
                /\ rtnVal.tag = "ok"
                /\ PairElem(rtnVal, i, j).k \in {"nan", "inf"}

\* C19, as the code has it: the call does not fail; at temperature 0 the
\* exponent is +Inf, the test of the exponent applies and the element is exactly
\* 0; at a negative temperature the element is no NaN, and for a float spectral
\* value it is finite and negative
C19_ZeroOrNegativeValue ==
    fn \in ExitanceFns =>
        \A i \in 1..NVals(spectral), j \in 1..NVals(temperature) :
            (spectral.data[i] > 0 /\ temperature.data[j] <= 0) =>
                LET e == PairElem(rtnVal, i, j)
                IN  /\ rtnVal.tag = "ok"
                    /\ temperature.data[j] = 0 => e = Zero(1)
                    /\ temperature.data[j] < 0 =>
                          /\ e.k # "nan"
                          /\ spectral.dt = "f" => (e.k = "fin" /\ e.sg = -1)

\* planckef with a positive frequency and the temperatures -1 and 0: a negative
\* finite value and an exact zero come back
C19_Witness ==
    /\ fn = "planckef"
    /\ spectral.dt = "f" /\ spectral.data = << BigVal >>
    /\ temperature.data = << -1, 0 >>
    /\ rtnVal.tag = "ok"
    /\ PairElem(rtnVal, 1, 1).k = "fin" /\ PairElem(rtnVal, 1, 1).sg = -1
    /\ PairElem(rtnVal, 1, 2) = Zero(1)

----------------------------------------------------------------------------
(* C20 *)

\* twice the trapezoidal integral of r * f over the grid s, n samples of each:
\* the sum over the intervals of width * (sum of the two end values)
RECURSIVE TwiceIntegral(_, _, _, _)
TwiceIntegral(s, r, f, n) ==
    IF n <= 1 THEN 0
    ELSE TwiceIntegral(s, r, f, n - 1)
         + (s[n] - s[n - 1]) * (r[n] * f[n] + r[n - 1] * f[n - 1])

\* the integral of radiance * bar over the spectral grid of the call
Tristim(bar) ==
    Num(Rat(TwiceIntegral(spectral.data, curves.radiance.data, bar.data,
                          Len(spectral.data)), 2))

TristimSum == FAdd(FAdd(Tristim(curves.xbar), Tristim(curves.ybar)), Tristim(curves.zbar))

\* C20: chromaticityforSpectralL returns [x, y, Y] in that order, X, Y, Z being
\* the trapezoidal integrals of radiance*xbar, radiance*ybar and radiance*zbar
\* over the spectral grid, x = X/(X+Y+Z), y = Y/(X+Y+Z); the third element is
\* the integral Y and not z
C20_ChromaticityTriple ==
    fn = "chromaticityforSpectralL" =>
        /\ rtnVal.tag = "ok"
        /\ rtnVal.shape = << 3 >>
        /\ rtnVal.d[1] = FDiv(Tristim(curves.xbar), TristimSum)
        /\ rtnVal.d[2] = FDiv(Tristim(curves.ybar), TristimSum)
        /\ rtnVal.d[3] = Tristim(curves.ybar)

\* a call with two samples in which x, y, z and Y all differ
C20_Witness ==
    /\ fn = "chromaticityforSpectralL"
    /\ Len(spectral.data) = 2
    /\ rtnVal.tag = "ok"
    /\ \A k \in 1..3 : rtnVal.d[k].k = "fin"
    /\ rtnVal.d[1] # rtnVal.d[2]
    /\ rtnVal.d[3] # FDiv(Tristim(curves.zbar), TristimSum)
    /\ rtnVal.d[3] # rtnVal.d[2]
    /\ Tristim(curves.zbar).k = "fin"

----------------------------------------------------------------------------
(* C17 *)

\* C17: no step of a call of an evaluator, a dispatcher or
\* chromaticityforSpectralL changes the spectral, temperature, radiance or
\* tristimulus arrays of its caller, although tempIn and specIn are the caller's
\* own arrays when the caller passed an ndarray
C17_ArgumentsUnchanged ==
    [][\A t \in Threads :
          (frame[t].pc # "idle" /\ frame'[t].pc # "idle") =>
              /\ frame'[t].spectral = frame[t].spectral
              /\ frame'[t].temperature = frame[t].temperature
              /\ frame'[t].curves = frame[t].curves]_vars

\* a dispatched call has returned whose specIn was the caller's own array, and
\* a chromaticity call has returned: the arrays hold what the callers passed
C17_Witness ==
    /\ frame[1].pc = "done"
    /\ frame[1].fn = "planck"
    /\ frame[1].callee = "plancken"
    /\ frame[1].alias = {"specIn"}
    /\ frame[1].spectral = Arg("ndarray", "f", << BigVal >>)
    /\ frame[1].temperature = Arg("list", "f", ThreadVector)
    /\ frame[1].rtnVal.tag = "ok"
    /\ frame[2].pc = "done"
    /\ frame[2].fn = "chromaticityforSpectralL"
    /\ frame[2].rtnVal.tag = "ok"
    /\ frame[2].spectral = Arg("column", "f", ThreadVector)
    /\ frame[2].curves = Curves("column", << 1, 2 >>, << 0, 1 >>, << 1, 1 >>, << 1, 0 >>)

----------------------------------------------------------------------------
(* C21 *)

\* C21: when the three integrals sum to zero, chromaticityforSpectralL raises
\* no exception and the x and y it returns are NaN or Inf
C21_ZeroSum ==
    (fn = "chromaticityforSpectralL" /\ TristimSum.k = "zero") =>
        /\ rtnVal.tag = "ok"
        /\ rtnVal.d[1].k \in {"nan", "inf"}
        /\ rtnVal.d[2].k \in {"nan", "inf"}

\* the integrals cancel with X # 0: x is Inf and y is NaN
C21_Witness ==
    /\ fn = "chromaticityforSpectralL"
    /\ Len(spectral.data) = 2
    /\ TristimSum.k = "zero"
    /\ Tristim(curves.xbar).k = "fin"
    /\ rtnVal.tag = "ok"
    /\ rtnVal.d[1].k = "inf"
    /\ rtnVal.d[2].k = "nan"

----------------------------------------------------------------------------
(* C22 *)

\* the constants k > 0 the radiance is multiplied by, as fractions
ScaleFactors == {<< 3, 1 >>, << 1, 2 >>}

\* the radiance array of a call, every sample multiplied by k
ScaledRadiance(v, k) ==
    [v EXCEPT !.data = [i \in 1..Len(v.data) |-> k[1] * v.data[i]],
              !.den = v.den * k[2]]

\* the call of the state, made again with the radiance multiplied by k
ScaledCall(k) ==
    chromaticityforSpectralL(spectral, ScaledRadiance(curves.radiance, k),
                             curves.xbar, curves.ybar, curves.zbar)

SameChromaticity(s, r, k) ==
    /\ s.tag = "ok"
    /\ s.d[1] = r.d[1]
    /\ s.d[2] = r.d[2]
    /\ s.d[3] = FMul(Num(k), r.d[3])

\* C22: multiplying the radiance by a constant k > 0 leaves the x and y that
\* chromaticityforSpectralL returns unchanged and multiplies the Y it returns
\* by k
C22_ScaleInvariant ==
    fn = "chromaticityforSpectralL" =>
        \A k \in ScaleFactors : SameChromaticity(ScaledCall(k), rtnVal, k)

\* a call with finite x and y, two different integrals and Y # 0, so that the
\* scaled call returns another Y
C22_Witness ==
    /\ fn = "chromaticityforSpectralL"
    /\ Len(spectral.data) = 2
    /\ rtnVal.tag = "ok"
    /\ rtnVal.d[1].k = "fin"
    /\ rtnVal.d[2].k = "fin"
    /\ rtnVal.d[3].k = "fin"
    /\ rtnVal.d[1] # rtnVal.d[2]
    /\ ScaledCall(<< 3, 1 >>).d[3] # rtnVal.d[3]
    /\ ScaledCall(<< 3, 1 >>).d[1] = rtnVal.d[1]

----------------------------------------------------------------------------
(* C23 *)

\* the array numpy.exp is called on in each exitance function: exP2, in which
\* the exponents >= explimit are replaced by 1, and in plancken exP itself
ExpArgument(name, spec, temp) ==
    IF name = "plancken" THEN Exponent(name, spec, temp)
    ELSE NpWhere(ALess(Exponent(name, spec, temp), explimit),
                 Exponent(name, spec, temp), FromInt(1))

\* C23: in all six exitance functions the exponential is never evaluated on an
\* argument >= 709.7
C23_ExpBelowLimit ==
    fn \in ExitanceFns =>
        \A i \in 1..NVals(spectral), j \in 1..NVals(temperature) :
            ~FGeq(ExpArgument(fn, NpArray(ScalarOf(spectral, i)),
                              NpArray(ScalarOf(temperature, j))).d[1],
                  Rat(7097, 10))

----------------------------------------------------------------------------
(* C24 *)

\* factor = x e^x / (T (e^x - 1))
Factor(x, T) == FDiv(FMul(x, FExp(x)), FMul(T, FSub1(FExp(x))))

\* C24: for each of the six pairs and every input whose exponent x is below
\* 709.7, the derivative function equals factor * eta, with
\* factor = x e^x / (T (e^x - 1)) and eta the value of the exitance function of
\* the same pair
C24_DerivativeIsFactorTimesExitance ==
    fn \in DerivativeFns =>
        \A i \in 1..NVals(spectral), j \in 1..NVals(temperature) :
            LET s == ScalarOf(spectral, i)
                t == ScalarOf(temperature, j)
                x == Exponent(ExitanceOf(fn), NpArray(s), NpArray(t)).d[1]
                eta == Apply(ExitanceOf(fn), s, t)
            IN  FLess(x, Rat(7097, 10)) =>
                    /\ rtnVal.tag = "ok" /\ eta.tag = "ok"
                    /\ PairElem(rtnVal, i, j) =
                           FMul(Factor(x, FromInt(temperature.data[j])), eta.d[1])

----------------------------------------------------------------------------
(* C25 *)

\* C25: no derivative function tests the exponent: for an element whose
\* exponent x is >= 709.7 the exponential is taken of x itself and the element
\* is not forced to 0; where exp(x) overflows the element is NaN, while the
\* exitance function of the same pair returns exactly 0 there
C25_DerivativeUnguarded ==
    fn \in DerivativeFns =>
        \A i \in 1..NVals(spectral), j \in 1..NVals(temperature) :
            LET s == ScalarOf(spectral, i)
                t == ScalarOf(temperature, j)
                x == Exponent(ExitanceOf(fn), NpArray(s), NpArray(t)).d[1]
                eta == Apply(ExitanceOf(fn), s, t)
            IN  FGeq(x, Rat(7097, 10)) =>
                    /\ rtnVal.tag = "ok" /\ eta.tag = "ok"
                    /\ eta.d[1] = Zero(1)
                    /\ PairElem(rtnVal, i, j) # Zero(1)
                    /\ FExp(x).k = "inf" => PairElem(rtnVal, i, j).k \in {"nan", "inf"}

\* a call of dplnckel with a finite exponent >= 709.7: the derivative is NaN and
\* planckel gives 0
C25_Witness ==
    /\ fn = "dplnckel"
    /\ spectral.data = << 1 >> /\ temperature.data = << 1 >>
    /\ FGeq(Exponent("planckel", NpArray(spectral), NpArray(temperature)).d[1],
            Rat(7097, 10))
    /\ rtnVal.tag = "ok"
    /\ rtnVal.d[1].k = "nan"
    /\ planckel(spectral, temperature).d[1] = Zero(1)

----------------------------------------------------------------------------
(* C26 *)

\* C26: for each n in 2..5 the function an(x, n) has opposite signs at the two
\* ends of its bracket and, decreasing on it, exactly one root inside; the
\* root-finds for a2 .. a5 succeed and the construction of the constants does
\* not fail
C26_BracketsHoldOneRoot ==
    /\ modstate # "failed"
    /\ modstate \in {"constants", "loaded"} =>
          /\ pconst.set
          /\ \A n \in 2..5 :
                /\ an(Brackets[n][1], n) = 1
                /\ an(Brackets[n][2], n) = -1
                /\ Decreasing(Brackets[n][1], n)
          /\ pconst.a2 = Const("a2") /\ pconst.a3 = Const("a3")
          /\ pconst.a4 = Const("a4") /\ pconst.a5 = Const("a5")

\* the constants have been constructed, the four roots found
C26_Witness ==
    /\ modstate = "constants"
    /\ built = 1
    /\ pconst.set
    /\ \A n \in 2..5 : brentq(n) # NoRoot /\ an(Brackets[n][1], n) * an(Brackets[n][2], n) = -1
    /\ pconst.a4 = Const("a4")

----------------------------------------------------------------------------
(* The shape test of __main__: calls with arrays of rank 2 *)

ShapeVals == {0, 1, BigVal}

ShapeVectors == {d \in Vectors : \A i \in 1..Len(d) : d[i] \in ShapeVals}

\* a Python float, a list, a column (K,1) or a row (1,K) of floats
ShapeArgs ==
    {Arg("pyscalar", "f", << v >>) : v \in ShapeVals}
        \cup {Arg(f, "f", d) : f \in {"list", "column", "row"}, d \in ShapeVectors}

\* one call of one of the twelve functions
Call_ShapeTest ==
    /\ Idle
    /\ \E name \in ExitanceFns \cup DerivativeFns, s \in ShapeArgs, t \in ShapeArgs :
          /\ fn' = name
          /\ spectral' = s
          /\ temperature' = t
          /\ type' = ""
          /\ rtnVal' = Apply(name, s, t)
    /\ UNCHANGED << globals, frame, curves >>

\* the module is loaded, "if __name__ == '__main__'" runs
ShapeInit ==
    /\ pyMajor = 2
    /\ modstate = "loaded"
    /\ built = 1
    /\ explimit = ExpLimit
    /\ pconst = PlanckConstants
    /\ plancktype = PlanckType
    /\ dplancktype = DPlanckType
    /\ fn = ""
    /\ spectral = NoArg
    /\ temperature = NoArg
    /\ type = ""
    /\ rtnVal = NoCall
    /\ curves = NoCurves
    /\ frame = [t \in Threads |-> NoFrame]

ShapeNext == Call_ShapeTest \/ Return

ShapeSpec == ShapeInit /\ [][ShapeNext]_vars

----------------------------------------------------------------------------
(* C27 *)

\* the values of v as a flat sequence
FlatOf(v) == [v EXCEPT !.form = "list"]

\* C27: a column-shaped temperature of shape (M,1) gives the result the flat
\* sequence of the same M values gives; with a spectral vector of length N > 1
\* (and M > 1) both are the (N, M) array whose element [i][j] is the value for
\* spectral[i] and temperature[j]
C27_ColumnAsFlat ==
    (fn \in ExitanceFns \cup DerivativeFns /\ temperature.form = "column"
        /\ spectral.form \in {"pyscalar", "list"}) =>
        /\ rtnVal = Apply(fn, spectral, FlatOf(temperature))
        /\ (NVals(spectral) > 1 /\ NVals(temperature) > 1) =>
              /\ rtnVal.tag = "ok"
              /\ rtnVal.shape = << NVals(spectral), NVals(temperature) >>
              /\ \A i \in 1..NVals(spectral), j \in 1..NVals(temperature) :
                    At2(rtnVal, i, j) =
                        Apply(fn, ScalarOf(spectral, i), ScalarOf(temperature, j)).d[1]

\* planckef with two frequencies and a column of two temperatures: a (2, 2)
\* array in which [0][1] and [1][0] differ
C27_Witness ==
    /\ fn = "planckef"
    /\ spectral.form = "list" /\ spectral.data = << 1, BigVal >>
    /\ temperature.form = "column" /\ temperature.data = << 1, BigVal >>
    /\ rtnVal.tag = "ok"
    /\ rtnVal.shape = << 2, 2 >>
    /\ rtnVal = planckef(spectral, FlatOf(temperature))
    /\ At2(rtnVal, 1, 2).k = "fin"
    /\ At2(rtnVal, 1, 2) # At2(rtnVal, 2, 1)
    /\ At2(rtnVal, 1, 1) # At2(rtnVal, 2, 2)

----------------------------------------------------------------------------
(* C28 *)

\* C28: every result holds exactly one value for each pair of a spectral value
\* and a temperature, for inputs of rank 0, 1 or 2 (column or row), and no call
\* fails
C28_OneValuePerPair ==
    fn \in ExitanceFns \cup DerivativeFns =>
        /\ rtnVal.tag = "ok"
        /\ Len(rtnVal.d) = NVals(spectral) * NVals(temperature)

----------------------------------------------------------------------------
(* C29 *)

\* the float-typed input that is numerically equal to v
AsFloat(v) == [v EXCEPT !.dt = "f"]

\* C29: each exitance and derivative function returns for an integer-typed
\* spectral input the value it returns for the numerically equal float-typed
\* input
C29_IntegerAsFloat ==
    (fn \in ExitanceFns \cup DerivativeFns /\ spectral.dt = "i") =>
        rtnVal = Apply(fn, AsFloat(spectral), temperature)

----------------------------------------------------------------------------
(* C30 *)

\* C30: on an interpreter whose major version is greater than 2 the import
\* ends in exit(-1) before the constants are constructed, and no function of
\* the module is ever called there; on major version 2 the import does not exit
\* and goes on to construct the constants
C30_ImportGuard ==
    /\ pyMajor > 2 =>
          /\ modstate \in {"importing", "exited"}
          /\ built = 0
          /\ pconst = Unset
          /\ plancktype = << >> /\ dplancktype = << >>
          /\ fn = ""
    /\ pyMajor <= 2 =>
          /\ modstate # "exited"
          /\ modstate \in {"constants", "loaded"} => (built = 1 /\ pconst.set)

\* the import has ended in exit(-1) on Python 3, nothing constructed
C30_Witness ==
    /\ pyMajor = 3
    /\ modstate = "exited"
    /\ built = 0
    /\ pconst = Unset

==========================================================================
